---- MODULE Spec2Model ----
(***************************************************************************)
(* Track table and dirty-rectangle renderer of the ESP32 ADS-B companion.  *)
(*                                                                         *)
(* The model follows the main sketch (src/unnamed/part_001): the track     *)
(* table (findTrackByHex, allocTrackSlot, eraseTrackIfDrawn,               *)
(* expireOldTracks), the upsert loop of fetchAndUpdateTracks,              *)
(* buildDrawList and the dirty-rectangle pass of renderTracks.             *)
(*                                                                         *)
(* Scaling.  The screen, the icon, the strips, the table and the draw      *)
(* limit are scaled down (a 4x5 canvas, a 2x2 icon, 1-pixel strips, three  *)
(* slots, two drawn planes), and one tick of the clock stands for          *)
(* 15000 ms, so that TRACK_TTL_MS is one tick and the 30 s position        *)
(* threshold is two.  Every comparison is the one the code makes.          *)
(*                                                                         *)
(* Left out: lat/lon and flight of a Track (no modelled                    *)
(* operation reads them), and the icon mask, which is taken to have every  *)
(* bit set (the icon fills its PW x PH rectangle).  The bottom bar, the    *)
(* statistics it prints and the gate of loop() are state of their own that *)
(* the track and render steps do not read; each is exercised by a          *)
(* specification of its own.                                               *)
(***************************************************************************)
EXTENDS Integers, Sequences, FiniteSets

(* ---------------- program constants (scaled, see above) ---------------- *)
MAX_TRACKS == 3
MAX_DRAW == 2
SW == 4
SH == 5
PW == 2
PH == 2
LEGEND_H == 1
BOTTOM_H == 1
TRACK_TTL_MS == 1
\* the fetch period, scaled to one tick as well (the ratio to the TTL is not
\* kept; only the time gate of SpecLoop reads it)
FETCH_PERIOD_MS == 1
MAX_SEEN_POS_MS == 2
HEX_LEN == 6
ALT_L1_M == 1000
ALT_L2_M == 5000
ALT_L3_M == 9000
UNKNOWN_ALT == -1
SORT_UNKNOWN_KEY == -1000000
\* 0xFFFFFFFF, the start value of allocTrackSlot's search: above every clock
\* value (written as the largest integer the model checker handles)
OLDEST_INIT == 2147483647
\* sizeof(bottomPrev), sizeof(cur), sizeof(line)
BOTTOM_BUF == 96
SPRITE_CCW == TRUE
SPRITE_OFFSET_DEG == 0
SPRITE_FLIP_180 == FALSE
WIFI_CYCLES == 3
WIFI_MIN_RSSI_TO_TRY_DBM == -95
\* the rssi of a WifiCandidate that no scan has seen
RSSI_UNKNOWN == -999
\* the backlight, scaled: one tick of its clock stands for the 180 ms repeat
\* period, the idle window is three ticks, the brightness range is 0 .. 5,
\* and millis() wraps at MS_WRAP ticks (2^32 ms in the code)
BL_SAVE_IDLE_MS == 3
BL_STEP_MS == 1
BL_STEP == 2
BL_MAX == 5
HB9_BL_DEFAULT_PERCENT == 3
MS_WRAP == 8
\* waitForValidAircraftStream(10000, 800), in seconds: the retry delay is
\* taken as one second
STREAM_MAX_WAIT == 10
STREAM_RETRY == 1
HTTP_OK == 200
MAX_SEEN_S == 60
SEEN_ABSENT == 9999

(* ---------------------------- model bounds ----------------------------- *)
MaxTime == 3
\* the longest of the short texts handed to drawBottomBarTextDiff
MaxText == 3
MaxFeed == 2
\* the most networks a scan reports
MaxNets == 2
\* the most ticks one iteration of loop() takes
MaxLoopTicks == 2
\* the longest an HTTP GET and the parsing take, in seconds (http.setTimeout(3500))
MaxHttpTicks == 3
\* headings handed to the sprite mapping range over -MaxHeading .. MaxHeading
MaxHeading == 365
\* how far beyond the accepted margin the projected points of SpecProject reach
ProjBeyond == 1

Slots == 0 .. (MAX_TRACKS - 1)

\* hex strings of the feed: four 6-character addresses and one 7-character
\* non-ICAO address that shares its first six characters with the first
Hexes ==
  { <<1, 1, 1, 1, 1, 1>>, <<2, 2, 2, 2, 2, 2>>, <<3, 3, 3, 3, 3, 3>>,
    <<4, 4, 4, 4, 4, 4>>, <<1, 1, 1, 1, 1, 1, 9>> }

\* alt_baro of the feed: is<int>() and the value in feet; absent or "ground"
\* is not an integer.  Within the bounded feeds an aircraft keeps its altitude.
NoAlt == [isInt |-> FALSE, ft |-> 0]
AltFt(f) == [isInt |-> TRUE, ft |-> f]
AltOf(h) ==
  IF h[1] = 1 THEN NoAlt
  ELSE IF h[1] = 2 THEN AltFt(-100)
  ELSE IF h[1] = 3 THEN AltFt(1000)
  ELSE AltFt(20000)

\* rounded screen points (sx, sy) the projection may produce: icons with
\* top-left (0,1), (2,1), (1,2); x0 = SW, wholly right of the canvas; one that
\* would enter the legend strip; one rejected by latlon_to_screen_xy
PosA == <<1, 2>>
PosB == <<3, 2>>
PosC == <<2, 3>>
PosRight == <<5, 2>>
PosLegend == <<2, 1>>
PosReject == <<-3, 2>>

\* trk is lround of the "track" field, 0 when the field is absent
Obs(h, p) == [skip |-> FALSE, hex |-> h, sx |-> p[1], sy |-> p[2], alt |-> AltOf(h),
             trk |-> 0]
\* an entry the feed filters drop (no hex, no position, stale, out of range)
ObsSkipped == [skip |-> TRUE, hex |-> <<>>, sx |-> 0, sy |-> 0, alt |-> NoAlt,
               trk |-> 0]

\* the feed of Spec: every identity, one icon position
Observations ==
  { Obs(h, p) : h \in Hexes, p \in {PosA, PosReject} } \cup { ObsSkipped }

\* the feed of SpecRender: two identities, every position
RenderHexes == { <<1, 1, 1, 1, 1, 1>>, <<3, 3, 3, 3, 3, 3>> }
RenderObservations ==
  { Obs(h, p) : h \in RenderHexes,
                p \in {PosA, PosB, PosC, PosRight, PosLegend, PosReject} }
  \cup { ObsSkipped }

VARIABLES
  tracks,    \* the track table: Slots -> Track
  screen,    \* the TFT: pixel -> 0 (background) or 1 + the slot whose icon was painted last
  now,       \* millis(), in ticks
  pc,        \* position of loop(): idle, failed, fetch, expire, build, dirty, merge, paint, done
  last,      \* the path the loop body of fetchAndUpdateTracks took for the last entry:
             \* none, skipped (dropped by a filter), rejected (the projection
             \* failed), found (the identity had a slot), free (a free slot
             \* was taken), recycled (a used slot was taken), recycled_drawn (a
             \* used slot whose icon was on the screen was taken)
  evicted,   \* slots freed by this cycle's expireOldTracks, with their drawn state
  drawIdx,   \* renderTracks: the draw list (slot indices)
  dirty,     \* renderTracks: the dirty rectangles
  bottomPrev,     \* the text last rendered in the bottom bar (a sequence of characters)
  bottomHasPrev,  \* the bottom bar has been drawn once
  cells,          \* the character cells the last drawBottomBarTextDiff repainted
  lastFetch,      \* loop(): static uint32_t lastFetch
  feed,           \* the aircraft array of the last successful fetch
  gTotalRaw,      \* entries of that array
  gWithPos,       \* entries with a hex and a position
  gSeen,          \* entries with a hex seen at most MAX_SEEN_S ago
  headingIn,      \* the heading last handed to mapHeadingToSprite
  maskIndex,      \* the index with which planeMaskForHeading then read
                  \* plane32_offset (a sequence: empty before the first read)
  ssids,          \* <<SSIDdefault, SSIDalt>>
  wpc,            \* position of HB9IIUWifiConnection: boot, scan, cycles, returned
  scanFirst,      \* connectWiFiRobust: its argument
  cand,           \* connectWiFiRobust: WifiCandidate cand[2]
  cycle,          \* connectWiFiRobust: the cycle of the connect loop
  candK,          \* connectWiFiRobust: k, the candidate index of the connect loop
  g_connectedSSID,
  begun,          \* the WiFi.begin calls of this connectWiFiRobust, in order, each
                  \* with its cycle, its candidate and whether WL_CONNECTED was
                  \* read before the timeout
  scanned,        \* WiFi.scanNetworks has been called by this connectWiFiRobust
  weak,           \* <<cycle, k>> of the candidates skipped for a weak signal
  ret,            \* the value connectWiFiRobust returned last
  gBl,            \* current brightness
  gBlSaved,       \* last saved value
  gBlDirty,
  gLastTouchMs,
  lastStepMs,     \* handleTouchBrightnessAndSave: static uint32_t lastStepMs
  prefsBl,        \* the value stored under PREF_KEY_BL (a sequence: empty when
                  \* the key has never been written)
  blWrite,        \* the value the last call of handleTouchBrightnessAndSave
                  \* handed to prefs.putUChar (a sequence: empty when it made no call)
  touched,        \* tft.getTouch returned true in the last call
  sinceTouch,     \* ticks since the last call in which tft.getTouch returned
                  \* true, counted up to BL_SAVE_IDLE_MS
  spc,            \* setup() at waitForValidAircraftStream: waiting, continued
                  \* (it returned true), restarted (ESP.restart())
  sElapsed,       \* waitForValidAircraftStream: millis() - tStart, in seconds
  attempts,       \* waitForValidAircraftStream: attempts
  streamLast      \* the last attempt: its response, when it began and when the
                  \* response was there (a sequence: empty before the first)

\* the state of the bottom bar
barVars == <<bottomPrev, bottomHasPrev, cells>>

\* the state that the fetch and render steps below do not touch
\* the statistics the status line prints
statVars == <<feed, gTotalRaw, gWithPos, gSeen>>

\* the sprite lookup
hdgVars == <<headingIn, maskIndex>>

\* connectWiFiRobust
wifiVars == <<ssids, wpc, scanFirst, cand, cycle, candK, g_connectedSSID, begun, scanned, weak, ret>>

\* the backlight
blVars == <<gBl, gBlSaved, gBlDirty, gLastTouchMs, lastStepMs, prefsBl, blWrite, touched, sinceTouch>>

\* waitForValidAircraftStream
streamVars == <<spc, sElapsed, attempts, streamLast>>

otherVars == <<barVars, lastFetch, statVars, hdgVars, wifiVars, blVars, streamVars>>

vars == <<tracks, screen, now, pc, last, evicted, drawIdx, dirty, otherVars>>

(* ------------------------------ helpers -------------------------------- *)
Min(a, b) == IF a < b THEN a ELSE b
Max(a, b) == IF a > b THEN a ELSE b

Canvas == (0 .. (SW - 1)) \X (0 .. (SH - 1))

\* the pixels of the canvas inside rectangle r
RectPixels(r) ==
  { p \in Canvas : /\ r.x <= p[1] /\ p[1] < r.x + r.w
                   /\ r.y <= p[2] /\ p[2] < r.y + r.h }

Track0 ==
  [used |-> FALSE, hex |-> <<>>, cx |-> 0, cy |-> 0, oldDrawX |-> 0, oldDrawY |-> 0,
   altitude_m |-> UNKNOWN_ALT, color |-> "WHITE", lastUpdateMs |-> 0, drawn |-> FALSE,
   headingDeg |-> 0]

\* strncmp(a, b, 6) == 0
Strncmp6Eq(a, b) ==
  SubSeq(a, 1, Min(Len(a), HEX_LEN)) = SubSeq(b, 1, Min(Len(b), HEX_LEN))

\* strncpy(t.hex, hex, 6); t.hex[6] = 0
Strncpy6(hex) == SubSeq(hex, 1, Min(Len(hex), HEX_LEN))

colorFromAltitudeM(alt_m) ==
  IF alt_m < 0 THEN "UNKNOWN"
  ELSE IF alt_m < ALT_L1_M THEN "L1"
  ELSE IF alt_m < ALT_L2_M THEN "L2"
  ELSE IF alt_m < ALT_L3_M THEN "L3"
  ELSE "L4"

\* (int)lround(alt_ft * 0.3048): round half away from zero
FeetToMeters(alt_ft) ==
  IF alt_ft >= 0 THEN (alt_ft * 3048 + 5000) \div 10000
  ELSE -((((-alt_ft) * 3048) + 5000) \div 10000)

\* mutant of latlon_to_screen_xy: a margin of half an icon
latlon_to_screen_xyHalf(sx, sy) ==
  /\ ~(sx < -(PW \div 2) \/ sx > SW + (PW \div 2))
  /\ ~(sy < -(PH \div 2) \/ sy > SH + (PH \div 2))

\* the bounds test of latlon_to_screen_xy on the rounded screen point
latlon_to_screen_xy(sx, sy) ==
  /\ ~(sx < -PW \/ sx > SW + PW)
  /\ ~(sy < -PH \/ sy > SH + PH)

(* ------------------------------ rectangles ----------------------------- *)
Rect(x, y, w, h) == [x |-> x, y |-> y, w |-> w, h |-> h]

rectClampToScreen(r) ==
  LET r1 == IF r.x < 0 THEN [r EXCEPT !.w = r.w + r.x, !.x = 0] ELSE r
      r2 == IF r1.y < 0 THEN [r1 EXCEPT !.h = r1.h + r1.y, !.y = 0] ELSE r1
      r3 == IF r2.x + r2.w > SW THEN [r2 EXCEPT !.w = SW - r2.x] ELSE r2
      r4 == IF r3.y + r3.h > SH THEN [r3 EXCEPT !.h = SH - r3.y] ELSE r3
      r5 == IF r4.w < 0 THEN [r4 EXCEPT !.w = 0] ELSE r4
  IN  IF r5.h < 0 THEN [r5 EXCEPT !.h = 0] ELSE r5

\* mutant of rectIntersects: < in place of <=, so touching edges intersect
rectIntersectsTouching(a, b) ==
  ~(a.x + a.w < b.x \/ b.x + b.w < a.x \/ a.y + a.h < b.y \/ b.y + b.h < a.y)

rectIntersects(a, b) ==
  ~(a.x + a.w <= b.x \/ b.x + b.w <= a.x \/ a.y + a.h <= b.y \/ b.y + b.h <= a.y)

rectUnion(a, b) ==
  LET x1 == Min(a.x, b.x)
      y1 == Min(a.y, b.y)
      x2 == Max(a.x + a.w, b.x + b.w)
      y2 == Max(a.y + a.h, b.y + b.h)
  IN  Rect(x1, y1, x2 - x1, y2 - y1)

trackRectCurrent(t) == Rect(t.cx - (PW \div 2), t.cy - (PH \div 2), PW, PH)

trackRectOld(t) == Rect(t.oldDrawX, t.oldDrawY, PW, PH)

(* -------------------------------- screen ------------------------------- *)
\* restoreBgRect32 / restoreBgRectWide: clamp, then copy the background rows
restoreBgRect(scr, x, y, w, h) ==
  LET x1 == IF x < 0 THEN 0 ELSE x
      w1 == IF x < 0 THEN w + x ELSE w
      y1 == IF y < 0 THEN 0 ELSE y
      h1 == IF y < 0 THEN h + y ELSE h
      w2 == IF x1 + w1 > SW THEN SW - x1 ELSE w1
      h2 == IF y1 + h1 > SH THEN SH - y1 ELSE h1
  IN  IF w2 <= 0 \/ h2 <= 0 THEN scr
      ELSE [p \in Canvas |-> IF p \in RectPixels(Rect(x1, y1, w2, h2)) THEN 0 ELSE scr[p]]

\* drawPlaneAtTopLeft for the icon of slot i (every mask bit set; the TFT clips)
drawPlaneAtTopLeft(scr, x0, y0, i) ==
  [p \in Canvas |-> IF p \in RectPixels(Rect(x0, y0, PW, PH)) THEN i + 1 ELSE scr[p]]

(* ----------------------------- track table ----------------------------- *)
RECURSIVE FindFrom(_, _, _)
FindFrom(tr, hex, i) ==
  IF i >= MAX_TRACKS THEN -1
  ELSE IF tr[i].used /\ Strncmp6Eq(tr[i].hex, hex) THEN i
  ELSE FindFrom(tr, hex, i + 1)

\* mutant of findTrackByHex: strcmp instead of strncmp(.., 6)
RECURSIVE FindWholeFrom(_, _, _)
FindWholeFrom(tr, hex, i) ==
  IF i >= MAX_TRACKS THEN -1
  ELSE IF tr[i].used /\ tr[i].hex = hex THEN i
  ELSE FindWholeFrom(tr, hex, i + 1)

findTrackByHexStrcmp(tr, hex) == FindWholeFrom(tr, hex, 0)

findTrackByHex(tr, hex) == FindFrom(tr, hex, 0)

RECURSIVE FirstFree(_, _)
FirstFree(tr, i) ==
  IF i >= MAX_TRACKS THEN -1
  ELSE IF ~tr[i].used THEN i
  ELSE FirstFree(tr, i + 1)

\* the second loop of allocTrackSlot: (oldest, idx) after slots i .. MAX_TRACKS-1
RECURSIVE OldestFrom(_, _, _, _)
OldestFrom(tr, i, oldest, idx) ==
  IF i >= MAX_TRACKS THEN idx
  ELSE IF tr[i].lastUpdateMs < oldest
       THEN OldestFrom(tr, i + 1, tr[i].lastUpdateMs, i)
       ELSE OldestFrom(tr, i + 1, oldest, idx)

\* mutant of allocTrackSlot: <= in the search, so the last of equal minima wins
RECURSIVE OldestLastFrom(_, _, _, _)
OldestLastFrom(tr, i, oldest, idx) ==
  IF i >= MAX_TRACKS THEN idx
  ELSE IF tr[i].lastUpdateMs <= oldest
       THEN OldestLastFrom(tr, i + 1, tr[i].lastUpdateMs, i)
       ELSE OldestLastFrom(tr, i + 1, oldest, idx)

allocTrackSlotLastTie(tr) ==
  IF FirstFree(tr, 0) >= 0 THEN FirstFree(tr, 0)
  ELSE OldestLastFrom(tr, 0, OLDEST_INIT, 0)

allocTrackSlot(tr) ==
  IF FirstFree(tr, 0) >= 0 THEN FirstFree(tr, 0)
  ELSE OldestFrom(tr, 0, OLDEST_INIT, 0)

\* mutant of eraseTrackIfDrawn: drawn is cleared, the background is not restored
eraseTrackNoRestore(t, scr) ==
  IF ~t.drawn THEN [t |-> t, scr |-> scr]
  ELSE [t |-> [t EXCEPT !.drawn = FALSE], scr |-> scr]

\* eraseTrackIfDrawn: the track and the screen afterwards
eraseTrackIfDrawn(t, scr) ==
  IF ~t.drawn THEN [t |-> t, scr |-> scr]
  ELSE [t |-> [t EXCEPT !.drawn = FALSE],
        scr |-> restoreBgRect(scr, t.oldDrawX, t.oldDrawY, PW, PH)]

(* ------------------------------ the state ------------------------------ *)
\* static char bottomPrev[96] = {0}; static bool bottomHasPrev = false
BarInit ==
  /\ bottomPrev = <<>>
  /\ bottomHasPrev = FALSE
  /\ cells = {}

\* gTotalRaw = 0, gWithPos = 0, gSeen = 0
StatInit ==
  /\ feed = <<>>
  /\ gTotalRaw = 0
  /\ gWithPos = 0
  /\ gSeen = 0

HdgInit ==
  /\ headingIn = 0
  /\ maskIndex = <<>>

\* a const char*: the null pointer or a string
Ssid(str) == [null |-> FALSE, str |-> str]
NullSsid == [null |-> TRUE, str |-> ""]

\* WifiCandidate { ssid, pass, -999, false }
Candidate(ssid, pass) ==
  [ssid |-> ssid, pass |-> pass, rssi |-> RSSI_UNKNOWN, present |-> FALSE]

\* WifiCandidate cand[2] = { { SSIDdefault, PASSdefault, -999, false },
\*                           { SSIDalt, PASSalt, -999, false } }
Cand0(conf) == <<Candidate(conf[1], "PASSdefault"), Candidate(conf[2], "PASSalt")>>

\* before HB9IIUWifiConnection is called, with the given SSIDdefault and SSIDalt
WifiInit(conf) ==
  /\ ssids = conf
  /\ wpc = "boot"
  /\ scanFirst = FALSE
  /\ cand = Cand0(conf)
  /\ cycle = 1
  /\ candK = 0
  /\ g_connectedSSID = ""
  /\ begun = <<>>
  /\ scanned = FALSE
  /\ weak = {}
  /\ ret = FALSE

\* the SSIDs of the repository's configuration
SsidsConfigured == <<Ssid("NO WIFI FOR YOU!!!"), Ssid("MESH")>>

\* setup(): gBl = prefs.getUChar(PREF_KEY_BL, HB9_BL_DEFAULT_PERCENT);
\* gBlSaved = gBl; with the given content of the preferences
BlInit(stored) ==
  /\ prefsBl = stored
  /\ gBl = IF stored = <<>> THEN HB9_BL_DEFAULT_PERCENT ELSE stored[1]
  /\ gBlSaved = gBl
  /\ gBlDirty = FALSE
  /\ gLastTouchMs = 0
  /\ lastStepMs = 0
  /\ blWrite = <<>>
  /\ touched = FALSE
  /\ sinceTouch = BL_SAVE_IDLE_MS

\* setup() enters waitForValidAircraftStream: tStart = millis(), attempts = 0
StreamInit ==
  /\ spc = "waiting"
  /\ sElapsed = 0
  /\ attempts = 0
  /\ streamLast = <<>>

OtherInit ==
  /\ BarInit /\ lastFetch = 0 /\ StatInit /\ HdgInit /\ WifiInit(SsidsConfigured)
  /\ BlInit(<<>>) /\ StreamInit

NoLast == "none"

Init ==
  /\ tracks = [i \in Slots |-> Track0]
  /\ screen = [p \in Canvas |-> 0]
  /\ now = 0
  /\ pc = "idle"
  /\ last = NoLast
  /\ evicted = {}
  /\ drawIdx = <<>>
  /\ dirty = <<>>
  /\ OtherInit

\* millis() advances.  The clock is read by the upsert loop, by
\* expireOldTracks and by buildDrawList only, so time passing elsewhere is
\* time passing before the next of these.
Tick ==
  /\ pc \in {"fetch", "build"}
  /\ now < MaxTime
  /\ now' = now + 1
  /\ UNCHANGED <<tracks, screen, pc, last, evicted, drawIdx, dirty>>
  /\ UNCHANGED otherVars

(* ---------------------- fetchAndUpdateTracks --------------------------- *)
\* a % b of C for b > 0: the quotient is truncated towards zero, so the
\* remainder has the sign of a
CRem(a, b) == IF a >= 0 THEN a % b ELSE 0 - ((0 - a) % b)

\* hdg %= 360; if (hdg < 0) hdg += 360
HeadingOf(hdg) ==
  LET r == CRem(hdg, 360) IN IF r < 0 THEN r + 360 ELSE r

\* the fields an upsert writes
Updated(t, o, t_now) ==
  LET alt == IF o.alt.isInt THEN FeetToMeters(o.alt.ft) ELSE UNKNOWN_ALT
  IN  [t EXCEPT !.used = TRUE,
                !.hex = Strncpy6(o.hex),
                !.cx = o.sx,
                !.cy = o.sy,
                !.altitude_m = alt,
                !.color = colorFromAltitudeM(alt),
                !.headingDeg = HeadingOf(o.trk),
                !.lastUpdateMs = t_now]

LastKind(f, t) ==
  IF f >= 0 THEN "found"
  ELSE IF ~t.used THEN "free"
  ELSE IF t.drawn THEN "recycled_drawn"
  ELSE "recycled"

\* mutant of upsert: a slot is recycled without erasing its icon
upsertNoErase(tr, scr, o, t_now) ==
  LET f   == findTrackByHex(tr, o.hex)
      idx == IF f < 0 THEN allocTrackSlot(tr) ELSE f
  IN  [tracks |-> [tr EXCEPT ![idx] = Updated(tr[idx], o, t_now)],
       screen |-> scr,
       last   |-> LastKind(f, tr[idx])]

\* mutant of upsert: a new identity is dropped when no slot is free
upsertRejectWhenFull(tr, scr, o, t_now) ==
  LET f   == findTrackByHex(tr, o.hex)
      idx == IF f < 0 THEN FirstFree(tr, 0) ELSE f
  IN  IF idx < 0 THEN [tracks |-> tr, screen |-> scr, last |-> "skipped"]
      ELSE [tracks |-> [tr EXCEPT ![idx] = Updated(tr[idx], o, t_now)],
            screen |-> scr,
            last   |-> LastKind(f, tr[idx])]

\* the body of the loop over the aircraft array, from findTrackByHex to
\* t.lastUpdateMs = millis(), for an entry that passed the filters
upsert(tr, scr, o, t_now) ==
  LET f   == findTrackByHex(tr, o.hex)
      idx == IF f < 0 THEN allocTrackSlot(tr) ELSE f
      t   == tr[idx]
      e   == IF t.used /\ ~Strncmp6Eq(t.hex, o.hex)
             THEN eraseTrackIfDrawn(t, scr)
             ELSE [t |-> t, scr |-> scr]
  IN  [tracks |-> [tr EXCEPT ![idx] = Updated(e.t, o, t_now)],
       screen |-> e.scr,
       last   |-> LastKind(f, t)]

\* mutant of FetchFails: loop() renders whatever fetchAndUpdateTracks returned
FetchFailsRenders ==
  /\ pc = "idle"
  /\ pc' = "expire"
  /\ UNCHANGED <<tracks, screen, now, last, evicted, drawIdx, dirty>>
  /\ UNCHANGED otherVars

\* WiFi down, HTTP status other than 200, or a JSON parse error: nothing is touched
FetchFails ==
  /\ pc = "idle"
  /\ pc' = "failed"
  /\ UNCHANGED <<tracks, screen, now, last, evicted, drawIdx, dirty>>
  /\ UNCHANGED otherVars

\* HTTP 200 and a parsed document: the loop over the aircraft array starts
FetchBegin ==
  /\ pc = "idle"
  /\ pc' = "fetch"
  /\ UNCHANGED <<tracks, screen, now, last, evicted, drawIdx, dirty>>
  /\ UNCHANGED otherVars

\* mutant of ProcessAircraft: no continue after a failed projection
ProcessAircraftNoContinue(o) ==
  /\ pc = "fetch"
  /\ IF o.skip
     THEN /\ last' = "skipped"
          /\ UNCHANGED <<tracks, screen>>
     ELSE LET u == upsert(tracks, screen, o, now)
          IN  /\ tracks' = u.tracks
              /\ screen' = u.screen
              /\ last' = IF ~latlon_to_screen_xy(o.sx, o.sy) THEN "rejected" ELSE u.last
  /\ UNCHANGED <<now, pc, evicted, drawIdx, dirty>>
  /\ UNCHANGED otherVars

\* one iteration of the loop over the aircraft array
ProcessAircraft(o) ==
  /\ pc = "fetch"
  /\ IF o.skip
     THEN /\ last' = "skipped"
          /\ UNCHANGED <<tracks, screen>>
     ELSE IF ~latlon_to_screen_xy(o.sx, o.sy)
     THEN /\ last' = "rejected"
          /\ UNCHANGED <<tracks, screen>>
     ELSE LET u == upsert(tracks, screen, o, now)
          IN  /\ tracks' = u.tracks
              /\ screen' = u.screen
              /\ last' = u.last
  /\ UNCHANGED <<now, pc, evicted, drawIdx, dirty>>
  /\ UNCHANGED otherVars

\* fetchAndUpdateTracks returns true; loop() calls renderTracks
FetchReturn ==
  /\ pc = "fetch"
  /\ pc' = "expire"
  /\ last' = NoLast
  /\ UNCHANGED <<tracks, screen, now, evicted, drawIdx, dirty>>
  /\ UNCHANGED otherVars

(* --------------------------- expireOldTracks --------------------------- *)
\* mutant of Expired: >= instead of >
ExpiredAtTtl(t, t_now) == t.used /\ (t_now - t.lastUpdateMs) >= TRACK_TTL_MS

Expired(t, t_now) == t.used /\ (t_now - t.lastUpdateMs) > TRACK_TTL_MS

\* mutant of ExpireFrom: the slot is freed without eraseTrackIfDrawn
RECURSIVE ExpireNoEraseFrom(_, _, _, _)
ExpireNoEraseFrom(tr, scr, t_now, i) ==
  IF i >= MAX_TRACKS THEN [tracks |-> tr, screen |-> scr]
  ELSE IF Expired(tr[i], t_now)
       THEN ExpireNoEraseFrom([tr EXCEPT ![i].used = FALSE], scr, t_now, i + 1)
       ELSE ExpireNoEraseFrom(tr, scr, t_now, i + 1)

RECURSIVE ExpireFrom(_, _, _, _)
ExpireFrom(tr, scr, t_now, i) ==
  IF i >= MAX_TRACKS THEN [tracks |-> tr, screen |-> scr]
  ELSE IF Expired(tr[i], t_now)
       THEN LET e == eraseTrackIfDrawn(tr[i], scr)
            IN  ExpireFrom([tr EXCEPT ![i] = [e.t EXCEPT !.used = FALSE]],
                           e.scr, t_now, i + 1)
       ELSE ExpireFrom(tr, scr, t_now, i + 1)

expireOldTracks(tr, scr, t_now) == ExpireFrom(tr, scr, t_now, 0)

ExpireOldTracks ==
  /\ pc = "expire"
  /\ LET r == expireOldTracks(tracks, screen, now)
     IN  /\ tracks' = r.tracks
         /\ screen' = r.screen
  /\ evicted' = { [idx |-> i, x |-> tracks[i].oldDrawX, y |-> tracks[i].oldDrawY,
                   drawn |-> tracks[i].drawn] : i \in { j \in Slots : Expired(tracks[j], now) } }
  /\ pc' = "build"
  /\ UNCHANGED <<now, last, drawIdx, dirty>>
  /\ UNCHANGED otherVars

(* ----------------------------- buildDrawList --------------------------- *)
\* mutant of Drawable: the two strip tests are left out
DrawableNoStrips(t, t_now) ==
  LET x0 == t.cx - (PW \div 2)
      y0 == t.cy - (PH \div 2)
  IN  /\ t.used
      /\ ~((t_now - t.lastUpdateMs) > MAX_SEEN_POS_MS)
      /\ ~(x0 < -PW \/ x0 > SW)
      /\ ~(y0 < -PH \/ y0 > SH)

\* the inclusion tests of step 1, on the clock value t_now
Drawable(t, t_now) ==
  LET x0 == t.cx - (PW \div 2)
      y0 == t.cy - (PH \div 2)
  IN  /\ t.used
      /\ ~((t_now - t.lastUpdateMs) > MAX_SEEN_POS_MS)
      /\ ~(y0 < LEGEND_H)
      /\ ~(y0 + PH > SH - BOTTOM_H)
      /\ ~(x0 < -PW \/ x0 > SW)
      /\ ~(y0 < -PH \/ y0 > SH)

\* step 1: collect, in slot order, while count < maxOut
RECURSIVE CollectFrom(_, _, _, _, _)
CollectFrom(tr, t_now, maxOut, i, out) ==
  IF ~(i < MAX_TRACKS /\ Len(out) < maxOut) THEN out
  ELSE IF Drawable(tr[i], t_now)
       THEN CollectFrom(tr, t_now, maxOut, i + 1, Append(out, i))
       ELSE CollectFrom(tr, t_now, maxOut, i + 1, out)

SortKey(alt) == IF alt < 0 THEN SORT_UNKNOWN_KEY ELSE alt

\* step 2: the exchange sort, at positions i < j of the list (1-based)
RECURSIVE SortFrom(_, _, _, _)
SortFrom(tr, out, i, j) ==
  IF i >= Len(out) THEN out
  ELSE IF j > Len(out) THEN SortFrom(tr, out, i + 1, i + 2)
  ELSE IF SortKey(tr[out[i]].altitude_m) > SortKey(tr[out[j]].altitude_m)
       THEN SortFrom(tr, [out EXCEPT ![i] = out[j], ![j] = out[i]], i, j + 1)
       ELSE SortFrom(tr, out, i, j + 1)

\* mutant of buildDrawList: count <= maxOut in the loop condition of step 1
RECURSIVE CollectOneMoreFrom(_, _, _, _, _)
CollectOneMoreFrom(tr, t_now, maxOut, i, out) ==
  IF ~(i < MAX_TRACKS /\ Len(out) <= maxOut) THEN out
  ELSE IF Drawable(tr[i], t_now)
       THEN CollectOneMoreFrom(tr, t_now, maxOut, i + 1, Append(out, i))
       ELSE CollectOneMoreFrom(tr, t_now, maxOut, i + 1, out)

buildDrawListOneMore(tr, t_now, maxOut) ==
  SortFrom(tr, CollectOneMoreFrom(tr, t_now, maxOut, 0, <<>>), 1, 2)

\* mutant of buildDrawList: step 1 scans the table from the last slot down
RECURSIVE CollectDownFrom(_, _, _, _, _)
CollectDownFrom(tr, t_now, maxOut, i, out) ==
  IF ~(i >= 0 /\ Len(out) < maxOut) THEN out
  ELSE IF Drawable(tr[i], t_now)
       THEN CollectDownFrom(tr, t_now, maxOut, i - 1, Append(out, i))
       ELSE CollectDownFrom(tr, t_now, maxOut, i - 1, out)

buildDrawListDown(tr, t_now, maxOut) ==
  SortFrom(tr, CollectDownFrom(tr, t_now, maxOut, MAX_TRACKS - 1, <<>>), 1, 2)

buildDrawList(tr, t_now, maxOut) ==
  SortFrom(tr, CollectFrom(tr, t_now, maxOut, 0, <<>>), 1, 2)

isInDrawList(idx, list) == \E k \in 1 .. Len(list) : list[k] = idx

BuildDrawList ==
  /\ pc = "build"
  /\ drawIdx' = buildDrawList(tracks, now, MAX_DRAW)
  /\ pc' = "dirty"
  /\ UNCHANGED <<tracks, screen, now, last, evicted, dirty>>
  /\ UNCHANGED otherVars

(* ------------------------ renderTracks: dirty set ---------------------- *)
\* tracks drawn but no longer in the draw list: old rectangle, drawn cleared
RECURSIVE RemovedFrom(_, _, _, _)
RemovedFrom(tr, list, i, d) ==
  IF i >= MAX_TRACKS THEN [tracks |-> tr, dirty |-> d]
  ELSE IF tr[i].used /\ tr[i].drawn /\ ~isInDrawList(i, list)
       THEN RemovedFrom([tr EXCEPT ![i].drawn = FALSE], list, i + 1,
                        Append(d, trackRectOld(tr[i])))
       ELSE RemovedFrom(tr, list, i + 1, d)

\* old and new rectangles of the tracks of the draw list
RECURSIVE OldNewFrom(_, _, _, _)
OldNewFrom(tr, list, k, d) ==
  IF k > Len(list) THEN d
  ELSE LET t  == tr[list[k]]
           d1 == IF t.drawn THEN Append(d, trackRectOld(t)) ELSE d
       IN  OldNewFrom(tr, list, k + 1, Append(d1, trackRectCurrent(t)))

NonEmpty(r) == r.w > 0 /\ r.h > 0

\* clamp to the screen and drop the empty ones
ClampAll(d) == SelectSeq([k \in 1 .. Len(d) |-> rectClampToScreen(d[k])], NonEmpty)

\* mutant of collectDirty: the old rectangle of a track that stays in the
\* draw list is not marked dirty
RECURSIVE NewOnlyFrom(_, _, _, _)
NewOnlyFrom(tr, list, k, d) ==
  IF k > Len(list) THEN d
  ELSE NewOnlyFrom(tr, list, k + 1, Append(d, trackRectCurrent(tr[list[k]])))

collectDirtyNewOnly(tr, list) ==
  LET r == RemovedFrom(tr, list, 0, <<>>)
  IN  [tracks |-> r.tracks,
       dirty  |-> ClampAll(NewOnlyFrom(r.tracks, list, 1, r.dirty))]

\* mutant of collectDirty: the removed-from-draw-list loop marks the old
\* rectangle dirty but leaves drawn set
RECURSIVE RemovedKeepDrawnFrom(_, _, _, _)
RemovedKeepDrawnFrom(tr, list, i, d) ==
  IF i >= MAX_TRACKS THEN [tracks |-> tr, dirty |-> d]
  ELSE IF tr[i].used /\ tr[i].drawn /\ ~isInDrawList(i, list)
       THEN RemovedKeepDrawnFrom(tr, list, i + 1, Append(d, trackRectOld(tr[i])))
       ELSE RemovedKeepDrawnFrom(tr, list, i + 1, d)

collectDirtyKeepDrawn(tr, list) ==
  LET r == RemovedKeepDrawnFrom(tr, list, 0, <<>>)
  IN  [tracks |-> r.tracks,
       dirty  |-> ClampAll(OldNewFrom(r.tracks, list, 1, r.dirty))]

\* the candidate rectangles of a cycle, clamped, and the table afterwards
collectDirty(tr, list) ==
  LET r == RemovedFrom(tr, list, 0, <<>>)
  IN  [tracks |-> r.tracks,
       dirty  |-> ClampAll(OldNewFrom(r.tracks, list, 1, r.dirty))]

CollectDirty ==
  /\ pc = "dirty"
  /\ LET r == collectDirty(tracks, drawIdx)
     IN  /\ tracks' = r.tracks
         /\ dirty' = r.dirty
  /\ pc' = "merge"
  /\ UNCHANGED <<screen, now, last, evicted, drawIdx>>
  /\ UNCHANGED otherVars

\* the merge loop, at positions i < j of the array (1-based); Len(d) is nDirty
RECURSIVE MergeFrom(_, _, _)
MergeFrom(d, i, j) ==
  IF i > Len(d) THEN d
  ELSE IF j > Len(d) THEN MergeFrom(d, i + 1, i + 2)
  ELSE IF rectIntersects(d[i], d[j])
       THEN MergeFrom(SubSeq([d EXCEPT ![i] = rectClampToScreen(rectUnion(d[i], d[j])),
                                       ![j] = d[Len(d)]],
                             1, Len(d) - 1),
                      i, j)
       ELSE MergeFrom(d, i, j + 1)

\* mutant of mergeDirty: an intersecting rectangle is dropped, dirty[i] is not
\* grown to the union
RECURSIVE MergeNoUnionFrom(_, _, _)
MergeNoUnionFrom(d, i, j) ==
  IF i > Len(d) THEN d
  ELSE IF j > Len(d) THEN MergeNoUnionFrom(d, i + 1, i + 2)
  ELSE IF rectIntersects(d[i], d[j])
       THEN MergeNoUnionFrom(SubSeq([d EXCEPT ![j] = d[Len(d)]], 1, Len(d) - 1), i, j)
       ELSE MergeNoUnionFrom(d, i, j + 1)

mergeDirtyNoUnion(d) == MergeNoUnionFrom(d, 1, 2)

mergeDirty(d) == MergeFrom(d, 1, 2)

MergeDirty ==
  /\ pc = "merge"
  /\ dirty' = mergeDirty(dirty)
  /\ pc' = "paint"
  /\ UNCHANGED <<tracks, screen, now, last, evicted, drawIdx>>
  /\ UNCHANGED otherVars

(* ------------------- renderTracks: restore and redraw ------------------ *)
RECURSIVE RedrawFrom(_, _, _, _, _)
RedrawFrom(tr, scr, r, list, k) ==
  IF k > Len(list) THEN [tracks |-> tr, screen |-> scr]
  ELSE LET cr == trackRectCurrent(tr[list[k]])
       IN  IF ~rectIntersects(r, cr) THEN RedrawFrom(tr, scr, r, list, k + 1)
           ELSE RedrawFrom([tr EXCEPT ![list[k]].oldDrawX = cr.x,
                                      ![list[k]].oldDrawY = cr.y,
                                      ![list[k]].drawn = TRUE],
                           drawPlaneAtTopLeft(scr, cr.x, cr.y, list[k]),
                           r, list, k + 1)

redrawPlanesIntersecting(tr, scr, r, list) == RedrawFrom(tr, scr, r, list, 1)

RECURSIVE RepaintFrom(_, _, _, _, _)
RepaintFrom(tr, scr, d, list, i) ==
  IF i > Len(d) THEN [tracks |-> tr, screen |-> scr]
  ELSE LET bg == restoreBgRect(scr, d[i].x, d[i].y, d[i].w, d[i].h)
           rd == redrawPlanesIntersecting(tr, bg, d[i], list)
       IN  RepaintFrom(rd.tracks, rd.screen, d, list, i + 1)

repaintDirty(tr, scr, d, list) == RepaintFrom(tr, scr, d, list, 1)

RepaintDirty ==
  /\ pc = "paint"
  /\ LET r == repaintDirty(tracks, screen, dirty, drawIdx)
     IN  /\ tracks' = r.tracks
         /\ screen' = r.screen
  /\ pc' = "done"
  /\ UNCHANGED <<now, last, evicted, drawIdx, dirty>>
  /\ UNCHANGED otherVars

\* the end of loop(): the locals of renderTracks are gone
LoopDelay ==
  /\ pc \in {"done", "failed"}
  /\ pc' = "idle"
  /\ evicted' = {}
  /\ drawIdx' = <<>>
  /\ dirty' = <<>>
  /\ UNCHANGED <<tracks, screen, now, last>>
  /\ UNCHANGED otherVars

Next ==
  \/ Tick
  \/ FetchFails
  \/ FetchBegin
  \/ \E o \in Observations : ProcessAircraft(o)
  \/ FetchReturn
  \/ ExpireOldTracks
  \/ BuildDrawList
  \/ CollectDirty
  \/ MergeDirty
  \/ RepaintDirty
  \/ LoopDelay

Spec == Init /\ [][Next]_vars

NextRender ==
  \/ Tick
  \/ FetchFails
  \/ FetchBegin
  \/ \E o \in RenderObservations : ProcessAircraft(o)
  \/ FetchReturn
  \/ ExpireOldTracks
  \/ BuildDrawList
  \/ CollectDirty
  \/ MergeDirty
  \/ RepaintDirty
  \/ LoopDelay

SpecRender == Init /\ [][NextRender]_vars

(* ------------------- a feed of three overlapping icons ----------------- *)
\* a point between PosA and PosB: the icon at top-left (1,1) overlaps both
PosMid == <<2, 2>>

\* the feed of SpecOverlap: a low aircraft on the left, a high one and one of
\* unknown altitude on the right, each present or in the legend strip
OverlapObservations ==
  { Obs(<<3, 3, 3, 3, 3, 3>>, p) : p \in {PosA, PosMid} } \cup
  { Obs(<<4, 4, 4, 4, 4, 4>>, p) : p \in {PosB, PosLegend} } \cup
  { Obs(<<1, 1, 1, 1, 1, 1>>, p) : p \in {PosB, PosLegend} } \cup
  { ObsSkipped }

NextOverlap ==
  \/ Tick
  \/ FetchFails
  \/ FetchBegin
  \/ \E o \in OverlapObservations : ProcessAircraft(o)
  \/ FetchReturn
  \/ ExpireOldTracks
  \/ BuildDrawList
  \/ CollectDirty
  \/ MergeDirty
  \/ RepaintDirty
  \/ LoopDelay

SpecOverlap == Init /\ [][NextOverlap]_vars

(* ------------- latlon_to_screen_xy on points from bounded sets ---------- *)
\* one aircraft, every rounded screen point from beyond the margin on one
\* side to beyond the margin on the other
ProjectObservations ==
  { Obs(<<3, 3, 3, 3, 3, 3>>, <<x, y>>) :
      x \in (-PW - ProjBeyond) .. (SW + PW + ProjBeyond),
      y \in (-PH - ProjBeyond) .. (SH + PH + ProjBeyond) }

NextProject ==
  \/ FetchBegin
  \/ \E o \in ProjectObservations : ProcessAircraft(o)

SpecProject == Init /\ [][NextProject]_vars

(* ------------- colorFromAltitudeM on altitudes from a bounded set ------- *)
\* alt_baro values in feet around every band limit, at and below sea level
ColourFeet ==
  { -100, -3, -1, 0, 3279, 3280, 16402, 16403, 29525, 29526, 40000 }

\* two aircraft at one position, alt_baro absent or any of the values above
ColourObservations ==
  { [Obs(h, PosA) EXCEPT !.alt = a] :
      h \in RenderHexes, a \in { NoAlt } \cup { AltFt(f) : f \in ColourFeet } }

NextColour ==
  \/ FetchBegin
  \/ \E o \in ColourObservations : ProcessAircraft(o)

SpecColour == Init /\ [][NextColour]_vars

(* ------------------------------ bottom bar ----------------------------- *)
\* a text is a sequence of characters (one-character strings); NUL is what
\* the code reads past the end of the shorter text
NUL == ""
CharAt(txt, i) == IF i < Len(txt) THEN txt[i + 1] ELSE NUL

\* strncpy(cur, text, sizeof(cur) - 1); cur[sizeof(cur) - 1] = 0
StrncpyBuf(text) == SubSeq(text, 1, Min(Len(text), BOTTOM_BUF - 1))

\* mutant of drawBottomBarTextDiff: every cell below maxLen is repainted
drawBottomBarTextDiffAll(prev, hasPrev, text) ==
  LET cur == StrncpyBuf(text)
  IN  [prev |-> cur, cells |-> 0 .. (Max(Len(prev), Len(cur)) - 1)]

\* drawBottomBarTextDiff: the stored text and the repainted cells afterwards
drawBottomBarTextDiff(prev, hasPrev, text) ==
  LET cur    == StrncpyBuf(text)
      maxLen == Max(Len(prev), Len(cur))
  IN  IF ~hasPrev
      THEN [prev |-> cur, cells |-> 0 .. (Len(cur) - 1)]
      ELSE [prev  |-> cur,
            cells |-> { i \in 0 .. (maxLen - 1) : CharAt(prev, i) # CharAt(cur, i) }]

Rep(c, n) == [i \in 1 .. n |-> c]

\* texts handed to drawBottomBarTextDiff: every short text over three
\* characters, and texts that fill the buffer or exceed it
BarChars == { "a", "b", " " }
TextSamples ==
  UNION { [1 .. n -> BarChars] : n \in 0 .. MaxText } \cup
  { Rep("a", BOTTOM_BUF - 1), Rep("a", BOTTOM_BUF - 2) \o <<"b">>,
    Rep("a", BOTTOM_BUF - 1) \o <<"b", "b">> }

DrawBottomBarTextDiff(text) ==
  /\ LET r == drawBottomBarTextDiff(bottomPrev, bottomHasPrev, text)
     IN  /\ bottomPrev' = r.prev
         /\ cells' = r.cells
  /\ bottomHasPrev' = TRUE
  /\ UNCHANGED <<tracks, screen, now, pc, last, evicted, drawIdx, dirty, lastFetch, statVars, hdgVars, wifiVars, blVars, streamVars>>

NextBottomBar == \E text \in TextSamples : DrawBottomBarTextDiff(text)

SpecBottomBar == Init /\ [][NextBottomBar]_vars

(* ------------------- render cycles next to the strips ------------------- *)
\* the feed of SpecStrips: one aircraft that moves between the band, the
\* legend strip and the bottom strip, one at the lower edge of the band or in
\* the legend strip
PosBottom == <<2, 4>>
StripObservations ==
  { Obs(<<3, 3, 3, 3, 3, 3>>, p) : p \in {PosA, PosBottom, PosLegend} } \cup
  { Obs(<<4, 4, 4, 4, 4, 4>>, p) : p \in {PosC, PosLegend} }

NextStrips ==
  \/ Tick
  \/ FetchFails
  \/ FetchBegin
  \/ \E o \in StripObservations : ProcessAircraft(o)
  \/ FetchReturn
  \/ ExpireOldTracks
  \/ BuildDrawList
  \/ CollectDirty
  \/ MergeDirty
  \/ RepaintDirty
  \/ LoopDelay

SpecStrips == Init /\ [][NextStrips]_vars

(* --------------------------- the gate of loop() ------------------------ *)
\* the feed of SpecLoop: one aircraft, accepted, rejected or filtered out
LoopObservations ==
  { Obs(<<3, 3, 3, 3, 3, 3>>, p) : p \in {PosA, PosReject} } \cup { ObsSkipped }

\* WiFi is down (delay(250); return) or the period has not elapsed (delay(5))
LoopWait ==
  /\ pc = "idle"
  /\ now < MaxTime
  /\ now' = now + 1
  /\ UNCHANGED <<tracks, screen, pc, last, evicted, drawIdx, dirty, barVars, lastFetch, statVars, hdgVars, wifiVars, blVars, streamVars>>

\* mutant of GateOpen: the period is taken from the last successful fetch
GateOpenOnSuccess(ok) ==
  /\ pc = "idle"
  /\ (now - lastFetch) >= FETCH_PERIOD_MS
  /\ lastFetch' = IF ok THEN now ELSE lastFetch
  /\ pc' = IF ok THEN "fetch" ELSE "failed"
  /\ UNCHANGED <<tracks, screen, now, last, evicted, drawIdx, dirty, barVars, statVars, hdgVars, wifiVars, blVars, streamVars>>

\* the period has elapsed: lastFetch = now, and fetchAndUpdateTracks is
\* called; it fails at once (ok = FALSE) or enters its loop
GateOpen(ok) ==
  /\ pc = "idle"
  /\ (now - lastFetch) >= FETCH_PERIOD_MS
  /\ lastFetch' = now
  /\ pc' = IF ok THEN "fetch" ELSE "failed"
  /\ UNCHANGED <<tracks, screen, now, last, evicted, drawIdx, dirty, barVars, statVars, hdgVars, wifiVars, blVars, streamVars>>

NextLoop ==
  \/ LoopWait
  \/ \E ok \in BOOLEAN : GateOpen(ok)
  \/ Tick
  \/ \E o \in LoopObservations : ProcessAircraft(o)
  \/ FetchReturn
  \/ ExpireOldTracks
  \/ BuildDrawList
  \/ CollectDirty
  \/ MergeDirty
  \/ RepaintDirty
  \/ LoopDelay

SpecLoop == Init /\ [][NextLoop]_vars

(* -------------------------------- Wi-Fi -------------------------------- *)
wifiIsEnabledSSID(ssid) == ~ssid.null /\ ssid.str # ""
wifiCandidateEnabled(c) == wifiIsEnabledSSID(c.ssid)

\* mutant of NoneConfigured: no sanity check
NoneConfiguredNever(cd) == FALSE

\* !wifiCandidateEnabled(cand[0]) && !wifiCandidateEnabled(cand[1])
NoneConfigured(cd) == ~wifiCandidateEnabled(cd[1]) /\ ~wifiCandidateEnabled(cd[2])

\* mutant of AfterSanity: the scan is made whatever scanFirst is
AfterSanityScan(sf) == "scan"

\* if (scanFirst) { scan, sort }, then the connect cycles
AfterSanity(sf) == IF sf THEN "scan" ELSE "cycles"

\* HB9IIUWifiConnection calls connectWiFiRobust(false) and, when that
\* returned false, connectWiFiRobust(true).  connectWiFiRobust up to its
\* sanity check.
ConnectWiFiRobust(sf) ==
  /\ \/ wpc = "boot" /\ sf = FALSE
     \/ wpc = "returned" /\ ~scanFirst /\ ~ret /\ sf = TRUE
  /\ scanFirst' = sf
  /\ g_connectedSSID' = ""
  /\ cand' = Cand0(ssids)
  /\ cycle' = 1
  /\ candK' = 0
  /\ begun' = <<>>
  /\ scanned' = FALSE
  /\ weak' = {}
  /\ ret' = FALSE
  /\ wpc' = IF NoneConfigured(Cand0(ssids)) THEN "returned" ELSE AfterSanity(sf)
  /\ UNCHANGED ssids
  /\ UNCHANGED <<tracks, screen, now, pc, last, evicted, drawIdx, dirty, barVars, lastFetch, statVars, hdgVars, blVars, streamVars>>

\* a network of the scan: WiFi.SSID(i), WiFi.RSSI(i)
Net(s, rssi) == [ssid |-> s, rssi |-> rssi]

\* if (enabled && s == cand[k].ssid) { present = true; rssi = rssi; }
MatchNet(c, net) ==
  IF wifiCandidateEnabled(c) /\ net.ssid = c.ssid.str
  THEN [c EXCEPT !.present = TRUE, !.rssi = net.rssi]
  ELSE c

RECURSIVE ScanFrom(_, _, _)
ScanFrom(cd, nets, i) ==
  IF i > Len(nets) THEN cd
  ELSE ScanFrom(<<MatchNet(cd[1], nets[i]), MatchNet(cd[2], nets[i])>>, nets, i + 1)

score(c) ==
  IF ~wifiCandidateEnabled(c) THEN -2000
  ELSE IF ~c.present THEN -1000
  ELSE c.rssi

\* mutant of SortCand: the candidates stay in configuration order
SortCandNone(cd) == cd

\* if (score(cand[1]) > score(cand[0])) swap
SortCand(cd) == IF score(cd[2]) > score(cd[1]) THEN <<cd[2], cd[1]>> ELSE cd

\* what a scan can report: known and unknown networks, signals on both
\* sides of WIFI_MIN_RSSI_TO_TRY_DBM; no network when the scan fails
NetSamples ==
  { Net(s, r) : s \in {"home", "mesh", "other"},
                r \in {WIFI_MIN_RSSI_TO_TRY_DBM - 1, WIFI_MIN_RSSI_TO_TRY_DBM, -60} }
ScanSamples == UNION { [1 .. n -> NetSamples] : n \in 0 .. MaxNets }

\* the scan and the sort of connectWiFiRobust(true)
ScanNetworks(nets) ==
  /\ wpc = "scan"
  /\ scanned' = TRUE
  /\ cand' = SortCand(IF Len(nets) <= 0 THEN cand ELSE ScanFrom(cand, nets, 1))
  /\ wpc' = "cycles"
  /\ UNCHANGED <<ssids, scanFirst, cycle, candK, g_connectedSSID, begun, weak, ret>>
  /\ UNCHANGED <<tracks, screen, now, pc, last, evicted, drawIdx, dirty, barVars, lastFetch, statVars, hdgVars, blVars, streamVars>>

\* wifiTryConnectOne: WiFi.begin is called unless the SSID is disabled; the
\* attempt returns true when WiFi.status() read WL_CONNECTED before the
\* timeout (connected)
wifiTryConnectOne(c, connected) ==
  IF ~wifiCandidateEnabled(c) THEN [called |-> FALSE, ret |-> FALSE]
  ELSE [called |-> TRUE, ret |-> connected]

\* scanFirst && cand[k].present && cand[k].rssi < WIFI_MIN_RSSI_TO_TRY_DBM
WeakSkip(sf, c) == sf /\ c.present /\ c.rssi < WIFI_MIN_RSSI_TO_TRY_DBM

\* mutant of LastCycle: one cycle more
LastCycleLate(cy) == cy > WIFI_CYCLES

\* cycle <= WIFI_CYCLES fails after this cycle
LastCycle(cy) == cy >= WIFI_CYCLES

\* one iteration of the connect loop, for cand[k] (k is candK) in the current cycle
ConnectIteration(connected) ==
  /\ wpc = "cycles"
  /\ LET c     == cand[candK + 1]
         skip  == wifiCandidateEnabled(c) /\ WeakSkip(scanFirst, c)
         tried == wifiCandidateEnabled(c) /\ ~WeakSkip(scanFirst, c)
         r     == wifiTryConnectOne(c, connected)
     IN  /\ weak' = IF skip THEN weak \cup {<<cycle, candK>>} ELSE weak
         /\ begun' = IF tried /\ r.called
                     THEN Append(begun, [cycle |-> cycle, k |-> candK, c |-> c, ok |-> r.ret])
                     ELSE begun
         /\ IF tried /\ r.ret
            THEN /\ g_connectedSSID' = c.ssid.str
                 /\ ret' = TRUE
                 /\ wpc' = "returned"
                 /\ UNCHANGED <<cycle, candK>>
            ELSE /\ UNCHANGED g_connectedSSID
                 /\ IF candK = 0
                    THEN candK' = 1 /\ UNCHANGED <<cycle, wpc, ret>>
                    ELSE IF LastCycle(cycle)
                    THEN wpc' = "returned" /\ ret' = FALSE /\ UNCHANGED <<cycle, candK>>
                    ELSE cycle' = cycle + 1 /\ candK' = 0 /\ UNCHANGED <<wpc, ret>>
  /\ UNCHANGED <<ssids, scanFirst, cand, scanned>>
  /\ UNCHANGED <<tracks, screen, now, pc, last, evicted, drawIdx, dirty, barVars, lastFetch, statVars, hdgVars, blVars, streamVars>>

\* the configurations: each SSID null, empty or a name
SsidSamples == { NullSsid, Ssid(""), Ssid("home"), Ssid("mesh") }

InitWifi ==
  /\ tracks = [i \in Slots |-> Track0]
  /\ screen = [p \in Canvas |-> 0]
  /\ now = 0
  /\ pc = "idle"
  /\ last = NoLast
  /\ evicted = {}
  /\ drawIdx = <<>>
  /\ dirty = <<>>
  /\ BarInit /\ lastFetch = 0 /\ StatInit /\ HdgInit /\ BlInit(<<>>) /\ StreamInit
  /\ \E d, a \in SsidSamples : WifiInit(<<d, a>>)

NextWifi ==
  \/ \E sf \in BOOLEAN : ConnectWiFiRobust(sf)
  \/ \E nets \in ScanSamples : ScanNetworks(nets)
  \/ \E connected \in BOOLEAN : ConnectIteration(connected)

\* the code runs in setup(), one statement after the other, and each attempt
\* ends at its timeout: a step that can be taken is taken
SpecWifi == InitWifi /\ [][NextWifi]_vars /\ WF_vars(NextWifi)

(* ------------------------------ backlight ------------------------------ *)
\* a - b of two uint32_t
SubU32(a, b) == (a - b + MS_WRAP) % MS_WRAP

\* mutant of IdleElapsed: the save does not wait
IdleElapsedAlways(t, lastTouch) == TRUE

\* (now - gLastTouchMs) >= BL_SAVE_IDLE_MS
IdleElapsed(t, lastTouch) == SubU32(t, lastTouch) >= BL_SAVE_IDLE_MS

\* upper half => brighter, lower half => dimmer, clamped to 0 .. BL_MAX
StepBl(bl, upper) ==
  IF upper THEN (IF bl + BL_STEP > BL_MAX THEN BL_MAX ELSE bl + BL_STEP)
  ELSE (IF bl < BL_STEP THEN 0 ELSE bl - BL_STEP)

\* handleTouchBrightnessAndSave called at time t; touch is what tft.getTouch
\* returns, upper is touchY < SH / 2
handleTouchBrightnessAndSave(t, touch, upper) ==
  LET stepDue == touch /\ SubU32(t, lastStepMs) >= BL_STEP_MS
      bl      == IF stepDue THEN StepBl(gBl, upper) ELSE gBl
      dirty1  == gBlDirty \/ (stepDue /\ bl # gBl)
      touch1  == IF touch THEN t ELSE gLastTouchMs
      save    == dirty1 /\ IdleElapsed(t, touch1)
      write   == save /\ bl # gBlSaved
  IN  /\ gBl' = bl
      /\ lastStepMs' = IF stepDue THEN t ELSE lastStepMs
      /\ gLastTouchMs' = touch1
      /\ gBlDirty' = IF save THEN FALSE ELSE dirty1
      /\ gBlSaved' = IF write THEN bl ELSE gBlSaved
      /\ prefsBl' = IF write THEN <<bl>> ELSE prefsBl
      /\ blWrite' = IF write THEN <<bl>> ELSE <<>>

\* mutant of HandlerRuns: the handler is called after the Wi-Fi test
HandlerRunsConnected(connected) == connected

\* loop() calls handleTouchBrightnessAndSave first, before it tests WiFi.status()
HandlerRuns(connected) == TRUE

\* one iteration of loop(), as far as the backlight goes: d ticks after the
\* previous call (delay(250) without Wi-Fi, delay(5) and the fetch with it)
\* the handler runs
LoopBacklight(connected, touch, upper, d) ==
  /\ now' = (now + d) % MS_WRAP
  /\ IF HandlerRuns(connected)
     THEN /\ handleTouchBrightnessAndSave((now + d) % MS_WRAP, touch, upper)
          /\ touched' = touch
          /\ sinceTouch' = IF touch THEN 0 ELSE Min(BL_SAVE_IDLE_MS, sinceTouch + d)
     ELSE /\ UNCHANGED <<gBl, gBlSaved, gBlDirty, gLastTouchMs, lastStepMs, prefsBl>>
          /\ blWrite' = <<>>
          /\ touched' = FALSE
          /\ sinceTouch' = Min(BL_SAVE_IDLE_MS, sinceTouch + d)
  /\ UNCHANGED <<tracks, screen, pc, last, evicted, drawIdx, dirty>>
  /\ UNCHANGED <<barVars, lastFetch, statVars, hdgVars, wifiVars, streamVars>>

\* the preferences at boot: no key, or a stored value
StoredSamples == { <<>> } \cup { <<v>> : v \in {0, 1, BL_MAX - 1, BL_MAX} }

InitBacklight ==
  /\ tracks = [i \in Slots |-> Track0]
  /\ screen = [p \in Canvas |-> 0]
  /\ now = 0
  /\ pc = "idle"
  /\ last = NoLast
  /\ evicted = {}
  /\ drawIdx = <<>>
  /\ dirty = <<>>
  /\ BarInit /\ lastFetch = 0 /\ StatInit /\ HdgInit /\ WifiInit(SsidsConfigured)
  /\ StreamInit
  /\ \E stored \in StoredSamples : BlInit(stored)

NextBacklight ==
  \E connected, touch, upper \in BOOLEAN, d \in 0 .. MaxLoopTicks :
    LoopBacklight(connected, touch, upper, d)

\* an iteration of loop() in which time passes
TimePasses ==
  \E connected, touch, upper \in BOOLEAN, d \in 1 .. MaxLoopTicks :
    LoopBacklight(connected, touch, upper, d)

\* loop() is called again and again, and every iteration ends in a delay
SpecBacklight == InitBacklight /\ [][NextBacklight]_vars /\ WF_vars(TimePasses)

(* ----------------------------- sprite lookup --------------------------- *)
\* mutant of mapHeadingToSprite: the sprite sheet taken as clockwise
mapHeadingToSpriteCW(headingDeg) ==
  LET h0 == CRem(headingDeg, 360)
      h1 == IF h0 < 0 THEN h0 + 360 ELSE h0
      h3 == CRem(h1 + SPRITE_OFFSET_DEG, 360)
  IN  IF SPRITE_FLIP_180 THEN CRem(h3 + 180, 360) ELSE h3

mapHeadingToSprite(headingDeg) ==
  LET h0 == CRem(headingDeg, 360)
      h1 == IF h0 < 0 THEN h0 + 360 ELSE h0
      h2 == IF SPRITE_CCW THEN CRem(360 - h1, 360) ELSE h1
      h3 == CRem(h2 + SPRITE_OFFSET_DEG, 360)
  IN  IF SPRITE_FLIP_180 THEN CRem(h3 + 180, 360) ELSE h3

\* planeMaskForHeading: the index it reads plane32_offset with
planeMaskForHeading(headingDeg) ==
  LET r == CRem(headingDeg, 360) IN IF r < 0 THEN r + 360 ELSE r

\* drawPlaneAtTopLeft(x, y, mapHeadingToSprite(h), color), the lookup only
DrawPlaneHeading(h) ==
  /\ headingIn' = h
  /\ maskIndex' = <<planeMaskForHeading(mapHeadingToSprite(h))>>
  /\ UNCHANGED <<tracks, screen, now, pc, last, evicted, drawIdx, dirty, barVars, lastFetch, statVars, wifiVars, blVars, streamVars>>

\* the feed of SpecHeading: one aircraft whose rounded "track" field is
\* negative, in range, at and beyond a full turn
TrackSamples == { -721, -720, -361, -360, -359, -1, 0, 1, 90, 180, 359, 360, 361, 719, 720, 2147483647 }
HeadingObservations ==
  { [Obs(<<3, 3, 3, 3, 3, 3>>, PosA) EXCEPT !.trk = k] : k \in TrackSamples }

NextHeading ==
  \/ FetchBegin
  \/ \E o \in HeadingObservations : ProcessAircraft(o)
  \/ \E h \in (0 - MaxHeading) .. MaxHeading : DrawPlaneHeading(h)
  \/ \E i \in Slots : tracks[i].used /\ DrawPlaneHeading(tracks[i].headingDeg)

SpecHeading == Init /\ [][NextHeading]_vars

(* ----------------------------- status line ---------------------------- *)
\* an entry of the aircraft array, as far as the counters read it: whether
\* "hex" is non-empty, "seen" in seconds (9999 when the field is absent) and
\* whether "lat" and "lon" are numbers
FeedEntry(h, sn, p) == [hex |-> h, seen |-> sn, pos |-> p]
SeenSamples == { 0, MAX_SEEN_S, MAX_SEEN_S + 1, SEEN_ABSENT }
FeedEntries == { FeedEntry(h, sn, p) : h \in BOOLEAN, sn \in SeenSamples, p \in BOOLEAN }
Feeds == UNION { [1 .. n -> FeedEntries] : n \in 0 .. MaxFeed }

RECURSIVE CountFrom(_, _, _)
CountFrom(f, i, n) ==
  IF i > Len(f) THEN n
  ELSE IF ~f[i].hex THEN CountFrom(f, i + 1, n)
  ELSE CountFrom(f, i + 1,
                 [shown |-> IF f[i].seen <= MAX_SEEN_S THEN n.shown + 1 ELSE n.shown,
                  pos   |-> IF f[i].pos THEN n.pos + 1 ELSE n.pos])

\* fetchAndUpdateTracks, the counters: totalShown and withPos after the loop
Counters(f) == CountFrom(f, 1, [shown |-> 0, pos |-> 0])

\* a successful fetch: gTotalRaw = aircraft.size(), gSeen = totalShown,
\* gWithPos = withPos; renderTracks follows
FetchCounts(f) ==
  /\ pc = "idle"
  /\ feed' = f
  /\ gTotalRaw' = Len(f)
  /\ gSeen' = Counters(f).shown
  /\ gWithPos' = Counters(f).pos
  /\ pc' = "status"
  /\ UNCHANGED <<tracks, screen, now, last, evicted, drawIdx, dirty, barVars, lastFetch, hdgVars, wifiVars, blVars, streamVars>>

\* printf's %d of a value that is not negative
Digit(d) == <<"0", "1", "2", "3", "4", "5", "6", "7", "8", "9">>[d + 1]
RECURSIVE Dec(_)
Dec(n) == IF n < 10 THEN <<Digit(n)>> ELSE Dec(n \div 10) \o <<Digit(n % 10)>>

\* "Tot %d  Pos %d  Drw 0 | NEAR --- --.-km | FAR --.-km | MAX ALT ---"
LineNoDraw(tot, pos) ==
  <<"T", "o", "t", " ">> \o Dec(tot) \o <<" ", " ", "P", "o", "s", " ">> \o Dec(pos) \o
  <<" ", " ", "D", "r", "w", " ", "0", " ", "|", " ", "N", "E", "A", "R", " ",
    "-", "-", "-", " ", "-", "-", ".", "-", "k", "m", " ", "|", " ", "F", "A", "R", " ",
    "-", "-", ".", "-", "k", "m", " ", "|", " ", "M", "A", "X", " ", "A", "L", "T", " ",
    "-", "-", "-">>

\* "Tot %d  Pos %d  Drw %d | NEAR ...": the line up to the first bar; the
\* fields after it (name and distance of the nearest drawn track, the
\* farthest distance, the highest altitude) are left out
LineDraw(tot, pos, nDraw) ==
  <<"T", "o", "t", " ">> \o Dec(tot) \o <<" ", " ", "P", "o", "s", " ">> \o Dec(pos) \o
  <<" ", " ", "D", "r", "w", " ">> \o Dec(nDraw) \o <<" ", "|">>

\* updateBottomBar: the line it formats for nDraw drawn tracks
updateBottomBar(nDraw) ==
  IF nDraw <= 0 THEN LineNoDraw(gTotalRaw, gWithPos)
  ELSE LineDraw(gSeen, gWithPos, nDraw)

\* renderTracks ends with updateBottomBar(drawIdx, nDraw); nDraw is what
\* buildDrawList returned for the table, which holds tracks of this fetch
\* and of earlier ones
UpdateBottomBar(nDraw) ==
  /\ pc = "status"
  /\ LET r == drawBottomBarTextDiff(bottomPrev, bottomHasPrev, updateBottomBar(nDraw))
     IN  /\ bottomPrev' = r.prev
         /\ cells' = r.cells
  /\ bottomHasPrev' = TRUE
  /\ pc' = "done"
  /\ UNCHANGED <<tracks, screen, now, last, evicted, drawIdx, dirty, lastFetch, statVars, hdgVars, wifiVars, blVars, streamVars>>

NextStatus ==
  \/ FetchFails
  \/ \E f \in Feeds : FetchCounts(f)
  \/ \E n \in 0 .. MAX_DRAW : UpdateBottomBar(n)
  \/ LoopDelay

SpecStatus == Init /\ [][NextStatus]_vars

\* the number a reader finds after the given label of the status line
DigitVal(c) == CHOOSE d \in 0 .. 9 : Digit(d) = c
IsDigit(c) == \E d \in 0 .. 9 : Digit(d) = c
RECURSIVE ReadNat(_, _, _)
ReadNat(txt, i, acc) ==
  IF i <= Len(txt) /\ IsDigit(txt[i])
  THEN ReadNat(txt, i + 1, 10 * acc + DigitVal(txt[i]))
  ELSE acc
ShownTot(txt) == ReadNat(txt, 5, 0)

(* ------------------------ waitForValidAircraftStream -------------------- *)
\* the texts of the bottom bar
MsgStreamCheck(n, elapsedS, totalS) ==
  <<" ", " ", " ", " ", " ", " ", " ", " ", " ", " ", " ", " ", " ", " ", " ", " ",
   " ", "J", "S", "O", "N", " ", "S", "t", "r", "e", "a", "m", " ", "c", "h", "e", "c",
   "k", ".", ".", ".", " ", "#">> \o
  Dec(n) \o <<" ", " ">> \o Dec(elapsedS) \o <<"s", " ", "/", " ">> \o Dec(totalS) \o <<"s">>
MsgStreamOk ==
  <<" ", " ", " ", " ", " ", " ", " ", " ", " ", " ", " ", " ", " ", " ", " ", " ",
   " ", " ", " ", " ", " ", " ", "D", "a", "t", "a", " ", "s", "t", "r", "e", "a", "m",
   " ", "O", "K", ".", ".", ".", ".", ".", ".", ".">>
MsgStreamTimeout ==
  <<" ", " ", " ", " ", " ", " ", " ", " ", " ", " ", " ", " ", " ", " ", " ", " ",
   " ", " ", "S", "t", "r", "e", "a", "m", " ", "t", "i", "m", "e", "o", "u", "t", " ",
   "(", "n", "o", " ", "v", "a", "l", "i", "d", " ", "J", "S", "O", "N", " ", "s", "t",
   "r", "e", "a", "m", ")">>
MsgRebooting ==
  <<" ", " ", " ", " ", " ", " ", " ", " ", " ", " ", " ", " ", " ", " ", " ", " ",
   " ", " ", " ", " ", " ", " ", " ", " ", " ", "R", "e", "b", "o", "o", "t", "i", "n",
   "g", ".", ".", ".", ".", ".", ".", ".">>

\* what an attempt meets: WiFi.status(), the code of http.GET(), whether the
\* body parses, and whether the document has "now" and an "aircraft" array
Response(wifi, code, parses, hasNow, hasAircraftArray) ==
  [wifi |-> wifi, code |-> code, parses |-> parses, hasNow |-> hasNow,
   hasAircraftArray |-> hasAircraftArray]
ResponseSamples ==
  { Response(FALSE, HTTP_OK, TRUE, TRUE, TRUE), Response(TRUE, -1, TRUE, TRUE, TRUE),
    Response(TRUE, 404, TRUE, TRUE, TRUE), Response(TRUE, HTTP_OK, FALSE, TRUE, TRUE) } \cup
  { Response(TRUE, HTTP_OK, TRUE, n, a) : n, a \in BOOLEAN }

\* mutant of StructureReady: the "aircraft" array is not required
StructureReadyNowOnly(r) == r.hasNow

\* hasNow && hasAircraftArray
StructureReady(r) == r.hasNow /\ r.hasAircraftArray

\* the attempt reaches return true
StreamValid(r) == r.wifi /\ r.code = HTTP_OK /\ r.parses /\ StructureReady(r)

\* one pass of the while loop: the attempt meets response r, which is there
\* d seconds after the attempt began
StreamAttempt(r, d) ==
  /\ spc = "waiting"
  /\ sElapsed < STREAM_MAX_WAIT
  /\ attempts' = attempts + 1
  /\ LET took == IF r.wifi THEN d ELSE 0
         b1   == drawBottomBarTextDiff(bottomPrev, bottomHasPrev,
                   MsgStreamCheck(attempts + 1, sElapsed, STREAM_MAX_WAIT))
         b2   == drawBottomBarTextDiff(b1.prev, TRUE, MsgStreamOk)
     IN  /\ streamLast' = <<[r |-> r, began |-> sElapsed, arrived |-> sElapsed + took]>>
         /\ IF StreamValid(r)
            THEN /\ spc' = "continued"
                 /\ sElapsed' = sElapsed + took
                 /\ bottomPrev' = b2.prev
                 /\ cells' = b2.cells
            ELSE /\ spc' = "waiting"
                 /\ sElapsed' = sElapsed + took + STREAM_RETRY
                 /\ bottomPrev' = b1.prev
                 /\ cells' = b1.cells
  /\ bottomHasPrev' = TRUE
  /\ UNCHANGED <<tracks, screen, now, pc, last, evicted, drawIdx, dirty>>
  /\ UNCHANGED <<lastFetch, statVars, hdgVars, wifiVars, blVars>>

\* the while condition fails: the two messages, then ESP.restart()
StreamTimeout ==
  /\ spc = "waiting"
  /\ ~(sElapsed < STREAM_MAX_WAIT)
  /\ spc' = "restarted"
  /\ LET b1 == drawBottomBarTextDiff(bottomPrev, bottomHasPrev, MsgStreamTimeout)
         b2 == drawBottomBarTextDiff(b1.prev, TRUE, MsgRebooting)
     IN  /\ bottomPrev' = b2.prev
         /\ cells' = b2.cells
  /\ bottomHasPrev' = TRUE
  /\ UNCHANGED <<sElapsed, attempts, streamLast>>
  /\ UNCHANGED <<tracks, screen, now, pc, last, evicted, drawIdx, dirty>>
  /\ UNCHANGED <<lastFetch, statVars, hdgVars, wifiVars, blVars>>

NextStream ==
  \/ \E r \in ResponseSamples, d \in 0 .. MaxHttpTicks : StreamAttempt(r, d)
  \/ StreamTimeout

SpecStream == Init /\ [][NextStream]_vars

(* ------------- buildDrawList on tables drawn from bounded sets ---------- *)
\* Tables as the first fetch can leave them (no track drawn yet), at a clock
\* value at which buildDrawList runs.  Slot i holds its own identity.
DrawPos ==
  { PosA, PosRight, PosLegend,
    <<2, 4>>,        \* would enter the bottom bar
    <<6, 2>>,        \* top-left x0 > SW
    <<-2, 2>> }      \* top-left x0 < -PW
DrawAltM == { UNKNOWN_ALT, FeetToMeters(-100), FeetToMeters(1000) }
DrawSamples ==
  { Track0 } \cup
  { [Track0 EXCEPT !.used = TRUE, !.cx = p[1], !.cy = p[2], !.altitude_m = a,
                   !.color = colorFromAltitudeM(a), !.lastUpdateMs = u] :
      p \in DrawPos, a \in DrawAltM, u \in 0 .. TRACK_TTL_MS }
SlotHex(i) == [k \in 1 .. HEX_LEN |-> i + 1]

InitDrawList ==
  /\ \E f \in [Slots -> DrawSamples] :
       tracks = [i \in Slots |->
                  IF f[i].used THEN [f[i] EXCEPT !.hex = SlotHex(i)] ELSE f[i]]
  /\ now \in MAX_SEEN_POS_MS .. MaxTime
  /\ screen = [p \in Canvas |-> 0]
  /\ pc = "build"
  /\ last = NoLast
  /\ evicted = {}
  /\ drawIdx = <<>>
  /\ dirty = <<>>
  /\ OtherInit

NextDrawList == BuildDrawList

SpecDrawList == InitDrawList /\ [][NextDrawList]_vars
(* ======================================================================= *)
(*                                 Claims                                  *)
(* ======================================================================= *)
UsedSlots == { i \in Slots : tracks[i].used }

\* C1: after any sequence of upserts, slot recycles and expiries, no two used
\* slots of the track table hold the same identity (hex).
C1_UniqueIdentity ==
  \A i, j \in Slots :
    (i # j /\ tracks[i].used /\ tracks[j].used) => tracks[i].hex # tracks[j].hex

\* the table is full and an entry whose identity was already tracked has just
\* been merged into its slot
C1_Witness ==
  /\ last = "found"
  /\ UsedSlots = Slots

\* C4: expireOldTracks frees exactly the used slots whose age
\* (now - lastUpdateMs) exceeds TRACK_TTL_MS: afterwards no used slot is older
\* than the TTL, and every other slot is left unchanged.
C4_ExpireExact ==
  [][(pc = "expire" /\ pc' = "build") =>
       /\ \A i \in Slots :
            IF tracks[i].used /\ (now - tracks[i].lastUpdateMs) > TRACK_TTL_MS
            THEN ~tracks'[i].used
            ELSE tracks'[i] = tracks[i]
       /\ \A i \in Slots :
            tracks'[i].used => (now - tracks'[i].lastUpdateMs) <= TRACK_TTL_MS]_vars

\* expireOldTracks has just freed a slot and kept one whose age is exactly the TTL
C4_Witness ==
  /\ pc = "build"
  /\ evicted # {}
  /\ \E i \in Slots : tracks[i].used /\ (now - tracks[i].lastUpdateMs) = TRACK_TTL_MS

\* the canvas pixels one of the rectangles of d covers
Covered(d) == UNION { RectPixels(d[k]) : k \in 1 .. Len(d) }

\* C5 as stated: when the expire step of a render cycle evicts a track that
\* was drawn, that track's last drawn rectangle is covered by the dirty set
\* the same cycle computes.
C5_EvictedRectInDirtySet ==
  pc \in {"merge", "paint"} =>
    \A e \in evicted :
      e.drawn => RectPixels(Rect(e.x, e.y, PW, PH)) \subseteq Covered(dirty)

\* C5 as amended: when the expire step of a render cycle evicts a track that
\* was drawn, the expire step itself has restored the background under the
\* track's last drawn rectangle and cleared drawn before the draw list and
\* the dirty set are built.
C5_EvictedRectRestored ==
  pc = "build" =>
    \A e \in evicted :
      e.drawn => /\ \A p \in RectPixels(Rect(e.x, e.y, PW, PH)) : screen[p] = 0
                 /\ ~tracks[e.idx].drawn
                 /\ ~tracks[e.idx].used

\* expireOldTracks has just evicted a track whose icon was on the screen
C5_Witness ==
  /\ pc = "build"
  /\ \E e \in evicted : e.drawn /\ RectPixels(Rect(e.x, e.y, PW, PH)) # {}

\* every slot is used and no used slot holds the identity of o
FullAndNew(o) ==
  /\ \A i \in Slots : tracks[i].used
  /\ \A i \in Slots : ~Strncmp6Eq(tracks[i].hex, o.hex)

\* the lowest index among the slots with the smallest lastUpdateMs
LruSlot ==
  CHOOSE k \in Slots :
    /\ \A i \in Slots : tracks[k].lastUpdateMs <= tracks[i].lastUpdateMs
    /\ \A i \in Slots : i < k => tracks[k].lastUpdateMs < tracks[i].lastUpdateMs

\* C6: when every slot is used and an observation with an identity not in the
\* table arrives, the slot taken is the one with the smallest lastUpdateMs
\* (the lowest index among equal minima); while a free slot exists, no used
\* slot is recycled.
C6_LruRecycle ==
  [][\A o \in Observations :
       (ProcessAircraft(o) /\ ~o.skip /\ latlon_to_screen_xy(o.sx, o.sy)) =>
         /\ FullAndNew(o) =>
              /\ tracks'[LruSlot].hex = Strncpy6(o.hex)
              /\ \A i \in Slots \ {LruSlot} : tracks'[i] = tracks[i]
         /\ (\E i \in Slots : ~tracks[i].used) =>
              \A i \in Slots :
                tracks[i].used => /\ tracks'[i].used
                                  /\ tracks'[i].hex = tracks[i].hex]_vars

\* a used slot other than slot 0 has just been recycled: it alone carries the
\* current time, and the table is still full
C6_Witness ==
  /\ last \in {"recycled", "recycled_drawn"}
  /\ \E k \in Slots \ {0} :
       /\ tracks[k].lastUpdateMs = now
       /\ \A i \in Slots \ {k} : tracks[i].lastUpdateMs < now

\* C7: when an upsert recycles a used slot that holds a different identity
\* with drawn == true, the background under that slot's last drawn rectangle
\* is restored and drawn is cleared, so the new identity never starts with
\* drawn == true.
C7_RecycleErases ==
  [][(pc = "fetch" /\ pc' = "fetch") =>
       \A i \in Slots :
         (tracks[i].used /\ tracks[i].drawn /\ tracks'[i].hex # tracks[i].hex) =>
           /\ ~tracks'[i].drawn
           /\ \A p \in RectPixels(Rect(tracks[i].oldDrawX, tracks[i].oldDrawY, PW, PH)) :
                screen'[p] = 0]_vars

\* a slot whose icon was on the screen has just been recycled
C7_Witness == last = "recycled_drawn"

\* C8: an observation that passes the feed filters and projects within
\* bounds is never rejected for lack of capacity: right after it is
\* processed the table holds a used slot with its identity, its new fields
\* and lastUpdateMs equal to the current time, and the number of used slots
\* never exceeds MAX_TRACKS.
C8_NeverRejected ==
  [][\A o \in Observations :
       (ProcessAircraft(o) /\ ~o.skip /\ latlon_to_screen_xy(o.sx, o.sy)) =>
         /\ \E i \in Slots :
              /\ tracks'[i].used
              /\ Strncmp6Eq(tracks'[i].hex, o.hex)
              /\ tracks'[i].cx = o.sx
              /\ tracks'[i].cy = o.sy
              /\ tracks'[i].altitude_m =
                   (IF o.alt.isInt THEN FeetToMeters(o.alt.ft) ELSE UNKNOWN_ALT)
              /\ tracks'[i].lastUpdateMs = now
         /\ Cardinality({ i \in Slots : tracks'[i].used }) <= MAX_TRACKS]_vars

\* the table was full and a new identity has just been taken in
C8_Witness ==
  /\ last \in {"recycled", "recycled_drawn"}
  /\ UsedSlots = Slots
  /\ \E i \in Slots : tracks[i].lastUpdateMs = now /\ tracks[i].cx = PosA[1]

\* C2: at the end of the merge step of every renderTracks cycle, no two
\* rectangles of the final dirty set intersect.
C2_NoOverlapAfterMerge ==
  pc = "paint" =>
    \A i, j \in 1 .. Len(dirty) : i < j => ~rectIntersects(dirty[i], dirty[j])

\* the tracks of the draw list whose icon covers pixel p
DrawnAt(p) ==
  { k \in 1 .. Len(drawIdx) : p \in RectPixels(trackRectCurrent(tracks[drawIdx[k]])) }

C9_SortedUnknownFirst ==
  pc = "dirty" =>
    /\ \A a, b \in 1 .. Len(drawIdx) :
         a < b =>
           LET ta == tracks[drawIdx[a]]
               tb == tracks[drawIdx[b]]
           IN  /\ tb.altitude_m = UNKNOWN_ALT => ta.altitude_m = UNKNOWN_ALT
               /\ (ta.altitude_m # UNKNOWN_ALT /\ tb.altitude_m # UNKNOWN_ALT)
                    => ta.altitude_m <= tb.altitude_m
    /\ LET c == CollectFrom(tracks, now, MAX_DRAW, 0, <<>>)
       IN  /\ Len(drawIdx) = Len(c)
           /\ { drawIdx[k] : k \in 1 .. Len(drawIdx) } = { c[k] : k \in 1 .. Len(c) }

\* C10: buildDrawList never returns more than maxOut entries, and every entry
\* is the index of a distinct used slot that satisfies all the inclusion
\* filters (freshness, strips, canvas margin).
C10_DrawListBounded ==
  [][(pc = "build" /\ pc' = "dirty") =>
       /\ Len(drawIdx') <= MAX_DRAW
       /\ \A a, b \in 1 .. Len(drawIdx') : a # b => drawIdx'[a] # drawIdx'[b]
       /\ \A k \in 1 .. Len(drawIdx') :
            /\ drawIdx'[k] \in Slots
            /\ LET t  == tracks[drawIdx'[k]]
                   x0 == t.cx - (PW \div 2)
                   y0 == t.cy - (PH \div 2)
               IN  /\ t.used
                   /\ (now - t.lastUpdateMs) <= MAX_SEEN_POS_MS
                   /\ y0 >= LEGEND_H
                   /\ y0 + PH <= SH - BOTTOM_H
                   /\ x0 >= -PW /\ x0 <= SW
                   /\ y0 >= -PH /\ y0 <= SH]_vars

\* buildDrawList has returned maxOut entries and left out a track that passes
\* every filter, next to a stale one
C10_Witness ==
  /\ pc = "dirty"
  /\ Len(drawIdx) = MAX_DRAW
  /\ \E i \in Slots : ~isInDrawList(i, drawIdx) /\ Drawable(tracks[i], now)

\* the age of a track as expireOldTracks and buildDrawList compute it
Age(t) == now - t.lastUpdateMs

\* C11: the position-staleness threshold used for draw eligibility is strictly
\* tighter than the table TTL: a track silent for longer than the TTL is also
\* too stale to draw, so that a track can be tracked (within the TTL) and yet
\* not drawn because its position is stale.
C11_StalenessTighterThanTtl ==
  \A i \in Slots :
    (tracks[i].used /\ Age(tracks[i]) > TRACK_TTL_MS)
      => (Age(tracks[i]) > MAX_SEEN_POS_MS)

\* C12: every track in a draw list has an icon bounding box that lies wholly
\* between the legend strip and the status strip: y0 >= LEGEND_H and
\* y0 + PH <= SH - BOTTOM_H for its top-left y0.
C12_IconBetweenStrips ==
  pc = "dirty" =>
    \A k \in 1 .. Len(drawIdx) :
      LET y0 == tracks[drawIdx[k]].cy - (PH \div 2)
      IN  y0 >= LEGEND_H /\ y0 + PH <= SH - BOTTOM_H

\* a draw list has been built from a table that also holds a fresh track whose
\* icon would enter the legend strip and one whose icon would enter the bottom
\* strip; both were left out
C12_Witness ==
  /\ pc = "dirty"
  /\ Len(drawIdx) >= 1
  /\ \E i, j \in Slots :
       /\ ~isInDrawList(i, drawIdx) /\ ~isInDrawList(j, drawIdx)
       /\ DrawableNoStrips(tracks[i], now) /\ DrawableNoStrips(tracks[j], now)
       /\ tracks[i].cy - (PH \div 2) < LEGEND_H
       /\ tracks[j].cy - (PH \div 2) + PH > SH - BOTTOM_H

\* C13: the final merged dirty set of a render cycle covers every clamped old
\* rectangle of a tracked entity that was drawn and every clamped current
\* rectangle of a draw-set track; a single drawn track that moves to a
\* rectangle intersecting its old one, and stays in the draw set, yields the
\* single rectangle that is the union of the two.
C13_DirtyCoversOldAndNew ==
  [][/\ (pc = "dirty" /\ pc' = "merge") =>
          /\ \A i \in Slots :
               (tracks[i].used /\ tracks[i].drawn)
                 => RectPixels(trackRectOld(tracks[i])) \subseteq Covered(dirty')
          /\ \A k \in 1 .. Len(drawIdx) :
               RectPixels(trackRectCurrent(tracks[drawIdx[k]])) \subseteq Covered(dirty')
     /\ (pc = "merge" /\ pc' = "paint") =>
          /\ Covered(dirty) \subseteq Covered(dirty')
          /\ (Len(dirty) = 2 /\ rectIntersects(dirty[1], dirty[2]))
               => dirty' = << rectClampToScreen(rectUnion(dirty[1], dirty[2])) >>
          /\ rectUnion(Rect(100, 100, 32, 32), Rect(110, 100, 32, 32)) = Rect(100, 100, 42, 32)]_vars

\* the merge step has ended with one rectangle for a cycle whose only drawn
\* track has moved, within the draw set, to a rectangle that intersects its
\* old one: the rectangle is the union of the old and the new one
C13_Witness ==
  /\ pc = "paint"
  /\ Len(drawIdx) = 1
  /\ \A i \in Slots : (tracks[i].used /\ tracks[i].drawn) => i = drawIdx[1]
  /\ LET t == tracks[drawIdx[1]]
     IN  /\ t.drawn
         /\ trackRectOld(t) # trackRectCurrent(t)
         /\ rectIntersects(trackRectOld(t), trackRectCurrent(t))
         /\ dirty = << rectUnion(trackRectOld(t), trackRectCurrent(t)) >>

\* rectangles a and b share a piece of an edge and no pixel
TouchEdge(a, b) ==
  \/ /\ (a.x + a.w = b.x \/ b.x + b.w = a.x)
     /\ a.y < b.y + b.h /\ b.y < a.y + a.h
  \/ /\ (a.y + a.h = b.y \/ b.y + b.h = a.y)
     /\ a.x < b.x + b.w /\ b.x < a.x + a.w

\* C14 as stated: in the merge step two dirty rectangles that only touch along
\* an edge (they share a boundary but no pixel) are treated as intersecting and
\* are replaced by their bounding union.
C14_TouchingMerged ==
  [][(pc = "merge" /\ pc' = "paint" /\ Len(dirty) = 2
        /\ TouchEdge(dirty[1], dirty[2]))
       => /\ rectIntersects(dirty[1], dirty[2])
          /\ dirty' = << rectClampToScreen(rectUnion(dirty[1], dirty[2])) >>]_vars

\* C14, amended: two dirty rectangles that only touch along an edge are not
\* treated as intersecting and the merge step leaves both as they are; two
\* rectangles of the dirty set intersect exactly when they share a pixel.
C14_TouchingKeptApart ==
  [][(pc = "merge" /\ pc' = "paint") =>
       /\ \A i, j \in 1 .. Len(dirty) :
            i < j => (rectIntersects(dirty[i], dirty[j])
                        <=> RectPixels(dirty[i]) \cap RectPixels(dirty[j]) # {})
       /\ (Len(dirty) = 2 /\ TouchEdge(dirty[1], dirty[2])) => dirty' = dirty]_vars

\* the merge step has ended with two rectangles that touch along an edge
C14_Witness ==
  /\ pc = "paint"
  /\ Len(dirty) = 2
  /\ TouchEdge(dirty[1], dirty[2])

\* C15: after a render cycle, every used track that had drawn == true at the
\* start of the cycle and is not in the cycle's draw set has drawn == false,
\* its old rectangle was restored to background during the cycle, and it was
\* not rasterized.
C15_RemovedErasedNotRedrawn ==
  [][/\ (pc = "dirty" /\ pc' = "merge") =>
          \A i \in Slots :
            (tracks[i].used /\ tracks[i].drawn /\ ~isInDrawList(i, drawIdx))
              => /\ tracks'[i] = [tracks[i] EXCEPT !.drawn = FALSE]
                 /\ RectPixels(trackRectOld(tracks[i])) \subseteq Covered(mergeDirty(dirty'))
     /\ (pc = "paint" /\ pc' = "done") =>
          /\ \A p \in Covered(dirty) : DrawnAt(p) = {} => screen'[p] = 0
          /\ \A i \in Slots :
               (tracks[i].used /\ ~isInDrawList(i, drawIdx))
                 => /\ tracks'[i] = tracks[i]
                    /\ ~tracks'[i].drawn
                    /\ \A p \in Canvas : screen'[p] # i + 1]_vars

\* a cycle with an empty draw set has completed whose only dirty rectangle is
\* the old rectangle of a track that is still tracked: the track was drawn and
\* has left the draw set, its flag is cleared and its rectangle is background
C15_Witness ==
  /\ pc = "done"
  /\ drawIdx = <<>>
  /\ \E i \in Slots :
       /\ tracks[i].used /\ ~tracks[i].drawn
       /\ dirty = << rectClampToScreen(trackRectOld(tracks[i])) >>
       /\ \A p \in RectPixels(trackRectOld(tracks[i])) : screen[p] = 0

\* C16: after a render cycle, every track in that cycle's draw set has
\* drawn == true and its recorded rectangle (oldDrawX, oldDrawY) equals its
\* current top-left (cx - PW/2, cy - PH/2).
C16_DrawSetRecorded ==
  pc = "done" =>
    \A k \in 1 .. Len(drawIdx) :
      LET t == tracks[drawIdx[k]]
      IN  /\ t.drawn
          /\ t.oldDrawX = t.cx - (PW \div 2)
          /\ t.oldDrawY = t.cy - (PH \div 2)

\* C17: for any two draw-set tracks whose current rectangles overlap, the last
\* rasterization of the higher-altitude track in a render cycle happens after
\* the last rasterization of the lower-altitude track, so the higher aircraft
\* ends up on top: after the cycle no pixel that both icons cover shows the
\* lower one.
C17_HigherOnTop ==
  pc = "done" =>
    \A a, b \in 1 .. Len(drawIdx) :
      LET ta == tracks[drawIdx[a]]
          tb == tracks[drawIdx[b]]
      IN  (ta.altitude_m >= 0 /\ ta.altitude_m < tb.altitude_m)
            => \A p \in RectPixels(trackRectCurrent(ta)) \cap RectPixels(trackRectCurrent(tb)) :
                 screen[p] # drawIdx[a] + 1

\* the dirty rectangles whose restore, in the repaint loop, writes pixel p
RestoresOf(p) == { i \in 1 .. Len(dirty) : p \in RectPixels(dirty[i]) }

\* the dirty rectangles for which redrawPlanesIntersecting rasterizes the
\* k-th track of the draw list
RastersOf(k) ==
  { i \in 1 .. Len(dirty) :
      rectIntersects(dirty[i], trackRectCurrent(tracks[drawIdx[k]])) }

\* C18: within one render cycle every screen pixel receives at most one
\* background restore and every draw-set track is rasterized at most once.
C18_SingleRestoreSingleDraw ==
  pc = "paint" =>
    /\ \A p \in Canvas : Cardinality(RestoresOf(p)) <= 1
    /\ \A k \in 1 .. Len(drawIdx) : Cardinality(RastersOf(k)) <= 1

\* C19: an observation whose position fails projection (latlon_to_screen_xy
\* returns false) leaves the track table unchanged: no slot is allocated or
\* recycled for it, and an existing entry with the same identity keeps its
\* position, lastUpdateMs and render state; nothing is erased either.
C19_RejectedLeavesTable ==
  [][(pc = "fetch" /\ pc' = "fetch" /\ last' = "rejected" /\ now' = now)
       => tracks' = tracks /\ screen' = screen]_vars

\* an observation has just failed projection while the table was full, held a
\* drawn track, and held a track older than the clock
C19_Witness ==
  /\ pc = "fetch"
  /\ last = "rejected"
  /\ UsedSlots = Slots
  /\ \E i \in Slots : tracks[i].drawn
  /\ \E i \in Slots : tracks[i].lastUpdateMs < now

\* C20 as stated: latlon_to_screen_xy reports out-of-bounds exactly when the
\* rounded screen point lies more than half an icon extent (PW/2 horizontally,
\* PH/2 vertically) outside the visible canvas on some side.
C20_RejectBeyondHalfIcon ==
  [][\A o \in ProjectObservations :
       ProcessAircraft(o) =>
         (last' = "rejected" <=>
            \/ o.sx < -(PW \div 2) \/ o.sx > SW + (PW \div 2)
            \/ o.sy < -(PH \div 2) \/ o.sy > SH + (PH \div 2))]_vars

\* C20, amended: latlon_to_screen_xy reports out-of-bounds exactly when the
\* rounded screen point lies more than a whole icon extent (PW horizontally,
\* PH vertically) outside the canvas on some side: sx < -PW, sx > SW + PW,
\* sy < -PH or sy > SH + PH.
C20_RejectBeyondWholeIcon ==
  [][\A o \in ProjectObservations :
       ProcessAircraft(o) =>
         (last' = "rejected" <=>
            \/ o.sx < -PW \/ o.sx > SW + PW
            \/ o.sy < -PH \/ o.sy > SH + PH)]_vars

\* a point a whole icon extent outside the canvas, to the right and above, has
\* been accepted and stored
C20_Witness ==
  /\ pc = "fetch"
  /\ last \in {"free", "found"}
  /\ \E i \in Slots :
       tracks[i].used /\ tracks[i].cx = SW + PW /\ tracks[i].cy = -PH

\* the step function of the altitude bands, on a known altitude in meters
BandOf(a) ==
  IF a < ALT_L1_M THEN "L1"
  ELSE IF a < ALT_L2_M THEN "L2"
  ELSE IF a < ALT_L3_M THEN "L3"
  ELSE "L4"

\* C21: for every signed integer altitude in meters, the colour cached on a
\* track by upsert follows the step function (unknown -> A; known a < 1000 ->
\* B, negative known altitudes included; < 5000 -> C; < 9000 -> D; else E),
\* and a report carrying an integer altitude is never stored or coloured as
\* unknown.
C21_ColourStepFunction ==
  [][\A o \in ColourObservations :
       ProcessAircraft(o) =>
         LET t == tracks'[findTrackByHex(tracks', o.hex)]
         IN  IF o.alt.isInt
             THEN /\ t.altitude_m = FeetToMeters(o.alt.ft)
                  /\ t.altitude_m # UNKNOWN_ALT
                  /\ t.color = BandOf(t.altitude_m)
             ELSE /\ t.altitude_m = UNKNOWN_ALT
                  /\ t.color = "UNKNOWN"]_vars

\* C22: on every call of drawBottomBarTextDiff after the first, the glyph cells
\* repainted are exactly the positions i below max(len(previous), len(new)) at
\* which the previous and the new text differ (a missing character counting
\* as empty), and afterwards the stored previous text equals the new text
\* truncated to 95 characters.
C22_OnlyDifferingCells ==
  [][\A text \in TextSamples :
       (bottomHasPrev /\ DrawBottomBarTextDiff(text)) =>
         LET new == SubSeq(text, 1, Min(Len(text), 95))
         IN  /\ \A i \in 0 .. (Max(Len(bottomPrev), Len(new)) - 1) :
                  i \in cells' <=>
                    (IF i < Len(bottomPrev) /\ i < Len(new)
                     THEN bottomPrev[i + 1] # new[i + 1]
                     ELSE TRUE)
             /\ \A i \in cells' : i < Max(Len(bottomPrev), Len(new))
             /\ bottomPrev' = new]_vars

\* a later call has replaced a two-character text by one that differs in the
\* second character only: one cell was repainted
C22_Witness ==
  /\ bottomHasPrev
  /\ Len(bottomPrev) = 2
  /\ cells = {1}

\* the positions of loop() inside renderTracks
RenderPcs == {"expire", "build", "dirty", "merge", "paint"}

\* C23: two consecutive fetch attempts of loop() start at least
\* FETCH_PERIOD_MS apart, a render cycle runs only directly after a
\* successful fetch and at most once per fetch, and a render cycle is never
\* started while another one is in progress.
C23_GatedNotReentrant ==
  [][/\ (pc = "idle" /\ pc' \in {"fetch", "failed"}) =>
          /\ (now - lastFetch) >= FETCH_PERIOD_MS
          /\ lastFetch' = now
     /\ (pc # "idle") => lastFetch' = lastFetch
     /\ (pc' = "expire" /\ pc # "expire") => pc = "fetch"
     /\ (pc = "failed") => pc' \in {"failed", "idle"}
     /\ (pc = "expire") => pc' \in {"expire", "build"}
     /\ (pc = "build") => pc' \in {"build", "dirty"}
     /\ (pc = "dirty") => pc' \in {"dirty", "merge"}
     /\ (pc = "merge") => pc' \in {"merge", "paint"}
     /\ (pc = "paint") => pc' \in {"paint", "done"}
     /\ (pc = "done") => pc' \in {"done", "idle"}]_vars

\* a fetch attempt has started after an earlier one that failed and one whose
\* render cycle drew a track
C23_Witness ==
  /\ pc = "fetch"
  /\ lastFetch = now
  /\ lastFetch >= 2 * FETCH_PERIOD_MS
  /\ \E i \in Slots : tracks[i].drawn

\* HOME projects to the centre of the canvas.  For tracks on the row of HOME
\* the squared pixel distance orders them as haversine_km does.
HomeDist2(t) ==
  (t.cx - (SW \div 2)) * (t.cx - (SW \div 2)) + (t.cy - (SH \div 2)) * (t.cy - (SH \div 2))

SeenCount(f) == Cardinality({ i \in 1 .. Len(f) : f[i].seen <= MAX_SEEN_S })

\* C25: 'Tot' of the status line is always the number of feed entries of the
\* last successful fetch whose "seen" age is at most MAX_SEEN_S, whether or
\* not any track is drawn in that cycle.
C25_TotIsSeenCount ==
  (bottomHasPrev /\ pc \in {"done", "idle", "failed"}) => ShownTot(bottomPrev) = SeenCount(feed)

\* C26: every used track has headingDeg in [0,359]; for every integer
\* heading, mapHeadingToSprite followed by planeMaskForHeading reads the
\* sprite offset table with an index in [0,359], and with the configured
\* convention (CCW, offset 0, no flip) the index is (360 - h) mod 360.
C26_HeadingAndIndexInRange ==
  /\ \A i \in Slots : tracks[i].used => tracks[i].headingDeg \in 0 .. 359
  /\ maskIndex # <<>> =>
       /\ maskIndex[1] \in 0 .. 359
       /\ maskIndex[1] = (360 - headingIn) % 360

\* a track stored from a "track" value outside [0,359] is in the table, and
\* the table of offsets has been read for a negative heading beyond a turn
C26_Witness ==
  /\ \E i \in Slots : tracks[i].used /\ tracks[i].headingDeg = 359
  /\ maskIndex # <<>>
  /\ headingIn < -360
  /\ maskIndex[1] = 5

\* the attempts of one cycle are made in the order of cand[]
InCandOrder ==
  \A i, j \in 1 .. Len(begun) :
    i < j => \/ begun[i].cycle < begun[j].cycle
             \/ begun[i].cycle = begun[j].cycle /\ begun[i].k < begun[j].k

\* C27: with scanFirst = true, connectWiFiRobust attempts the enabled
\* candidates in rank order in every cycle: a candidate seen in the scan
\* before one not seen, of two seen candidates the one with the higher RSSI
\* first, and a disabled candidate is never ranked ahead of an enabled one.
C27_RankOrder ==
  (scanFirst /\ scanned /\ wpc \in {"cycles", "returned"}) =>
    /\ wifiCandidateEnabled(cand[2]) => wifiCandidateEnabled(cand[1])
    /\ InCandOrder
    /\ \A i, j \in 1 .. Len(begun) :
         (i < j /\ begun[i].cycle = begun[j].cycle) =>
           /\ begun[j].c.present => begun[i].c.present
           /\ (begun[i].c.present /\ begun[j].c.present) => begun[i].c.rssi >= begun[j].c.rssi

\* both SSIDs were seen, the alternate one with the stronger signal, and both
\* have been attempted in the first cycle, the alternate one first
C27_Witness ==
  /\ scanFirst /\ scanned
  /\ Len(begun) >= 2
  /\ begun[1].cycle = 1 /\ begun[2].cycle = 1
  /\ begun[1].c.pass = "PASSalt" /\ begun[2].c.pass = "PASSdefault"
  /\ begun[1].c.present /\ begun[2].c.present
  /\ begun[1].c.rssi > begun[2].c.rssi

\* C28: with scanFirst = false, connectWiFiRobust performs no scan and never
\* skips a candidate for weak signal; in every cycle it attempts the default
\* SSID before the alternate SSID.
C28_FixedOrderNoScan ==
  (~scanFirst /\ wpc # "boot") =>
    /\ ~scanned
    /\ weak = {}
    /\ \A i \in 1 .. Len(begun) : ~begun[i].c.present
    /\ InCandOrder
    /\ \A i, j \in 1 .. Len(begun) :
         (i < j /\ begun[i].cycle = begun[j].cycle) =>
           begun[i].c.pass = "PASSdefault" /\ begun[j].c.pass = "PASSalt"

\* without a scan, the default and then the alternate SSID have been
\* attempted in a first and in a second cycle
C28_Witness ==
  /\ ~scanFirst
  /\ Len(begun) >= 4
  /\ begun[3].cycle = 2 /\ begun[3].c.pass = "PASSdefault"
  /\ begun[4].cycle = 2 /\ begun[4].c.pass = "PASSalt"

\* C29: no connection attempt is ever made with an empty or null SSID; when
\* both configured SSIDs are empty, connectWiFiRobust returns false without
\* scanning and without any connection attempt.
C29_NoAttemptWithoutSsid ==
  /\ \A i \in 1 .. Len(begun) : ~begun[i].c.ssid.null /\ begun[i].c.ssid.str # ""
  /\ (~wifiIsEnabledSSID(ssids[1]) /\ ~wifiIsEnabledSSID(ssids[2]) /\ wpc # "boot") =>
       /\ wpc = "returned" /\ ~ret
       /\ ~scanned
       /\ begun = <<>>

\* with a null and an empty SSID, connectWiFiRobust(true) has returned
C29_Witness ==
  /\ ssids[1].null /\ ~ssids[2].null /\ ssids[2].str = ""
  /\ scanFirst
  /\ wpc = "returned"

\* the attempts made with cand[kk]
AttemptsOf(kk) == { i \in 1 .. Len(begun) : begun[i].k = kk }

\* C30: connectWiFiRobust always terminates, after at most WIFI_CYCLES
\* attempts per enabled candidate; it returns true if and only if one attempt
\* read WL_CONNECTED within its timeout, g_connectedSSID is then that
\* candidate's SSID, and on a false return g_connectedSSID is empty.
C30_TerminatesWithResult ==
  /\ [](/\ \A kk \in 0 .. 1 : Cardinality(AttemptsOf(kk)) <= WIFI_CYCLES
        /\ wpc = "returned" =>
             /\ ret <=> (\E i \in 1 .. Len(begun) : begun[i].ok)
             /\ ret => /\ begun[Len(begun)].ok
                       /\ g_connectedSSID = begun[Len(begun)].c.ssid.str
             /\ ~ret => g_connectedSSID = "")
  /\ (wpc \in {"scan", "cycles"}) ~> (wpc = "returned")

\* the last attempt of the last cycle connected
C30_Witness ==
  /\ wpc = "returned" /\ ret
  /\ Len(begun) = 2 * WIFI_CYCLES
  /\ g_connectedSSID = "mesh"

\* C31: the brightness is written to persistent storage only when it changed
\* since the last write and at least BL_SAVE_IDLE_MS have passed since the
\* last touch; no write happens while touches keep arriving less than
\* BL_SAVE_IDLE_MS apart, and an unchanged value is never rewritten.
C31_SaveOnlyChangedAfterIdle ==
  [][blWrite' # <<>> =>
       /\ ~touched'
       /\ sinceTouch' >= BL_SAVE_IDLE_MS
       /\ blWrite'[1] = gBl'
       /\ blWrite'[1] # gBlSaved
       /\ prefsBl # <<>> => blWrite'[1] # prefsBl[1]
       /\ prefsBl' = blWrite']_vars

\* a value has been written over another stored value, after the idle window
C31_Witness ==
  /\ blWrite # <<>>
  /\ prefsBl = blWrite
  /\ sinceTouch >= BL_SAVE_IDLE_MS
  /\ blWrite # <<HB9_BL_DEFAULT_PERCENT>>

\* C32: if touches stop and loop() keeps being called, then eventually the
\* persisted brightness equals the current brightness and gBlDirty is false,
\* whether or not Wi-Fi is connected.
C32_EventuallySaved ==
  (<>[](~touched)) => <>[](gBlSaved = gBl /\ ~gBlDirty /\ prefsBl \in {<<>>, <<gBl>>})

\* a changed brightness has been saved and nothing is pending
C32_Witness ==
  /\ ~touched
  /\ ~gBlDirty
  /\ gBlSaved = gBl
  /\ prefsBl = <<gBl>>
  /\ blWrite = <<gBl>>

\* C33: a fetch that fails (Wi-Fi down, HTTP status other than 200, JSON
\* parse error) leaves the track table, the drawn state and the screen
\* unchanged, and no expire or render step runs in that loop iteration.
C33_FailedFetchTouchesNothing ==
  [][((pc = "idle" /\ pc' \notin {"idle", "fetch"}) \/ pc = "failed") =>
       /\ tracks' = tracks
       /\ screen' = screen
       /\ pc' \in {"failed", "idle"}]_vars

\* a fetch has failed while the table holds a track whose icon is on the screen
C33_Witness ==
  /\ pc = "failed"
  /\ \E i \in Slots : tracks[i].used /\ tracks[i].drawn /\ Expired(tracks[i], now)

\* C34 as stated: waitForValidAircraftStream returns true only after a
\* response with status 200 that parses and holds "now" and an "aircraft"
\* array; if no such response arrives within maxWaitMs, setup does not
\* continue and the device restarts.
C34_ValidWithinMaxWait ==
  /\ spc = "continued" =>
       /\ streamLast[1].r.wifi /\ streamLast[1].r.code = HTTP_OK /\ streamLast[1].r.parses
       /\ streamLast[1].r.hasNow /\ streamLast[1].r.hasAircraftArray
       /\ streamLast[1].arrived <= STREAM_MAX_WAIT
  /\ spc = "restarted" => sElapsed >= STREAM_MAX_WAIT

\* C34, amended: it returns true only after such a response, to an attempt
\* begun less than maxWaitMs after the start, however late the response is;
\* it restarts the device only at or after maxWaitMs, when the last attempt
\* brought no such response.
C34_ValidToAttemptBegunInTime ==
  /\ spc = "continued" =>
       /\ streamLast[1].r.wifi /\ streamLast[1].r.code = HTTP_OK /\ streamLast[1].r.parses
       /\ streamLast[1].r.hasNow /\ streamLast[1].r.hasAircraftArray
       /\ streamLast[1].began < STREAM_MAX_WAIT
  /\ spc = "restarted" =>
       /\ sElapsed >= STREAM_MAX_WAIT
       /\ streamLast # <<>>
       /\ ~(/\ streamLast[1].r.wifi /\ streamLast[1].r.code = HTTP_OK /\ streamLast[1].r.parses
            /\ streamLast[1].r.hasNow /\ streamLast[1].r.hasAircraftArray)

\* setup continues on a response that was there after maxWaitMs
C34_Witness ==
  /\ spc = "continued"
  /\ attempts > 1
  /\ streamLast[1].arrived > STREAM_MAX_WAIT

\* the rectangles renderTracks writes to dirty[] before it clamps them
Candidates(tr, list) ==
  LET r == RemovedFrom(tr, list, 0, <<>>)
  IN  OldNewFrom(r.tracks, list, 1, r.dirty)

DrawnSlots == { i \in Slots : tracks[i].drawn }

\* C35: in every render cycle the number of candidate dirty rectangles
\* written (old rectangles of removed tracks, old and new rectangles of
\* draw-set tracks) never exceeds the capacity 3 * MAX_DRAW of the dirty
\* array, because at most MAX_DRAW tracks have drawn set at the start of a cycle.
C35_DirtyWithinCapacity ==
  /\ Cardinality(DrawnSlots) <= MAX_DRAW
  /\ pc = "dirty" => Len(Candidates(tracks, drawIdx)) <= 2 * MAX_DRAW + MAX_DRAW

\* a cycle with MAX_DRAW drawn tracks, one of them removed from a full draw list
C35_Witness ==
  /\ pc = "dirty"
  /\ Cardinality(DrawnSlots) = MAX_DRAW
  /\ Len(drawIdx) = MAX_DRAW
  /\ \E i \in DrawnSlots : ~isInDrawList(i, drawIdx)
  /\ Len(Candidates(tracks, drawIdx)) = 2 * MAX_DRAW

\* the pixels of the legend strip and of the bottom status strip
StripPixels == { p \in Canvas : p[2] < LEGEND_H \/ p[2] >= SH - BOTTOM_H }

\* C36: no background restore and no icon rasterization made by fetch-time
\* recycling, by expiry or by the render cycle touches a pixel row of the
\* legend strip or of the bottom status strip, also after the dirty
\* rectangles are merged.
C36_StripsUntouched ==
  /\ \A p \in StripPixels : screen[p] = 0
  /\ \A i \in Slots :
       tracks[i].drawn => RectPixels(trackRectOld(tracks[i])) \cap StripPixels = {}
  /\ pc \in {"merge", "paint"} => Covered(dirty) \cap StripPixels = {}
  /\ pc = "paint" =>
       \A k \in 1 .. Len(drawIdx) :
         RastersOf(k) # {} =>
           RectPixels(trackRectCurrent(tracks[drawIdx[k]])) \cap StripPixels = {}

\* the repaint is about to restore a merged rectangle that reaches from the
\* legend strip to the bottom strip, while a track of the table has moved to
\* where its icon would enter the bottom strip
C36_Witness ==
  /\ pc = "paint"
  /\ \E i \in 1 .. Len(dirty) :
       dirty[i].y = LEGEND_H /\ dirty[i].y + dirty[i].h = SH - BOTTOM_H
  /\ \E i \in Slots :
       tracks[i].used /\ tracks[i].cy - (PH \div 2) + PH > SH - BOTTOM_H

\* the pixels that show the icon painted for slot i
IconPixels(scr, i) == { p \in Canvas : scr[p] = i + 1 }

\* C37: in every reachable state a slot with drawn set is also used:
\* freeing a slot by expiry, or handing it to another identity by recycling,
\* clears drawn first, so no free slot keeps an icon on the screen that
\* nothing will erase.
C37_DrawnImpliesUsed ==
  /\ [](\A i \in Slots :
          /\ tracks[i].drawn => tracks[i].used
          /\ ~tracks[i].used => IconPixels(screen, i) = {})
  /\ [][\A i \in Slots :
          (tracks[i].used /\ (~tracks'[i].used \/ tracks'[i].hex # tracks[i].hex)) =>
            /\ ~tracks'[i].drawn
            /\ IconPixels(screen', i) = {}]_vars

\* a slot whose icon was on the screen has been freed by expiry while
\* another track's icon stays
C37_Witness ==
  /\ pc = "build"
  /\ \E e \in evicted : e.drawn /\ ~tracks[e.idx].used
  /\ \E i \in Slots : tracks[i].used /\ tracks[i].drawn
====
